---------------------------- MODULE Spec2Model ----------------------------
(***************************************************************************)
(* A model of the cruzbit directory indexer: the path codec (pad44,        *)
(* inflateNodes, isLabelling), the directory graph (Link,                  *)
(* IsParentDescendant, Rank) and the indexer (indexTransactions, run,      *)
(* rankGraph, Shutdown).                                                   *)
(*                                                                         *)
(* Go strings are sequences of one-character strings, so that trimming,    *)
(* splitting and padding are computed character by character.  float64     *)
(* edge weights only ever hold integral sums of int64 amounts and are      *)
(* integers here; float64 rankings are exact rationals [n, d].             *)
(***************************************************************************)
EXTENDS Integers, Sequences, FiniteSets, TLC

(***************************************************************************)
(* Bounds of the model.                                                    *)
(***************************************************************************)
\* number of Link calls made on the stand-alone graph
MaxLinks == 3
\* largest ranking denominator the Rank loop is followed to
MaxDen == 400
\* number of blocks the indexer is fed
MaxBlocks == 4
\* number of blocks the processor connects to the main chain
MaxChain == 3
\* number of blocks the indexer is fed on the directory "docs"
MaxDocsBlocks == 4
\* number of Link calls made on the graph IsParentDescendant is asked about
MaxDfsLinks == 4
\* number of blocks the indexer is fed with two directories labelled "docs"
MaxTwinBlocks == 4
\* largest n DiminishingOrders is called with
MaxOrderArg == 1300
\* longest run of one character in an input of pad44
MaxPadFill == 46

(***************************************************************************)
(* Strings.                                                                *)
(***************************************************************************)
Repeat(c, n) == [i \in 1..n |-> c]

Contains(s, c) == \E i \in 1..Len(s) : s[i] = c

\* what a Go panic leaves in place of a value
Panic == <<"panic">>

\* utils.go pad44: const base64Length
base64Length == 44

pad44(input) ==
    IF Len(input) >= base64Length
    THEN input
    ELSE LET reInput == IF input # <<"0">> /\ ~Contains(input, "/")
                        THEN Append(input, "/")
                        ELSE input
             padLength == base64Length - Len(reInput) - 1
         IN  IF padLength < 0
             THEN Panic  \* strings.Repeat panics on a negative count
             ELSE reInput \o Repeat("0", padLength) \o <<"=">>

\* the root sink identifier
Root == pad44(<<"0">>)

(***************************************************************************)
(* Go's strings and strconv functions, on character sequences.             *)
(***************************************************************************)
RECURSIVE TrimRight(_, _)
TrimRight(s, cutset) ==
    IF s = <<>> \/ s[Len(s)] \notin cutset
    THEN s
    ELSE TrimRight(SubSeq(s, 1, Len(s) - 1), cutset)

RECURSIVE TrimLeft(_, _)
TrimLeft(s, cutset) ==
    IF s = <<>> \/ s[1] \notin cutset THEN s ELSE TrimLeft(Tail(s), cutset)

Trim(s, cutset) == TrimLeft(TrimRight(s, cutset), cutset)

WhiteSpace == {" ", "\t", "\n", "\r"}

\* TrimSpace leaving the white space in place
TrimSpaceKept(s) == s

TrimSpace(s) == Trim(s, WhiteSpace)

HasPrefix(s, prefix) ==
    Len(s) >= Len(prefix) /\ SubSeq(s, 1, Len(prefix)) = prefix

\* the place of the first occurrence of the non-empty sep in s, 0 when none
IndexOf(s, sep) ==
    LET at == {i \in 1..(Len(s) - Len(sep) + 1) : SubSeq(s, i, i + Len(sep) - 1) = sep}
    IN  IF at = {} THEN 0 ELSE CHOOSE i \in at : \A j \in at : i <= j

RECURSIVE Split(_, _)
\* strings.Split(s, sep) for a non-empty sep
Split(s, sep) ==
    LET i == IndexOf(s, sep)
    IN  IF i = 0
        THEN <<s>>
        ELSE <<SubSeq(s, 1, i - 1)>> \o Split(SubSeq(s, i + Len(sep), Len(s)), sep)

\* strings.Split(s, sep)[0]; an empty sep splits s after each character
SplitFirst(s, sep) ==
    IF sep = <<>>
    THEN IF s = <<>> THEN Panic ELSE <<s[1]>>
    ELSE Split(s, sep)[1]

ReplaceAll(s, old, new) == [i \in 1..Len(s) |-> IF s[i] = old THEN new ELSE s[i]]

Digits == <<"0", "1", "2", "3", "4", "5", "6", "7", "8", "9">>

RECURSIVE Itoa(_)
\* strconv.Itoa / strconv.FormatInt(n, 10) of n >= 0
Itoa(n) == IF n < 10 THEN <<Digits[n + 1]>> ELSE Append(Itoa(n \div 10), Digits[(n % 10) + 1])

RECURSIVE ZeroPad(_, _)
ZeroPad(s, width) == IF Len(s) >= width THEN s ELSE ZeroPad(<<"0">> \o s, width)

(***************************************************************************)
(* time.Unix(t, 0).UTC().Format of the layouts "2006", "2006+01" and       *)
(* "2006+01+02", for t >= 0.                                               *)
(***************************************************************************)
SecondsPerDay == 86400

IsLeap(y) == (y % 4 = 0 /\ y % 100 # 0) \/ y % 400 = 0

DaysInYear(y) == IF IsLeap(y) THEN 366 ELSE 365

DaysInMonth(y, m) ==
    IF m = 2 THEN (IF IsLeap(y) THEN 29 ELSE 28)
    ELSE IF m \in {4, 6, 9, 11} THEN 30 ELSE 31

RECURSIVE CivilYear(_, _)
\* the year and the day of the year (from 0) of the day `days` after 1 Jan y
CivilYear(y, days) ==
    IF days < DaysInYear(y) THEN [year |-> y, day |-> days]
    ELSE CivilYear(y + 1, days - DaysInYear(y))

RECURSIVE CivilMonth(_, _, _)
CivilMonth(y, m, days) ==
    IF days < DaysInMonth(y, m) THEN [month |-> m, day |-> days + 1]
    ELSE CivilMonth(y, m + 1, days - DaysInMonth(y, m))

Civil(t) ==
    LET yd == CivilYear(1970, t \div SecondsPerDay)
        md == CivilMonth(yd.year, 1, yd.day)
    IN  [year |-> yd.year, month |-> md.month, day |-> md.day]

FormatYear(t) == ZeroPad(Itoa(Civil(t).year), 4)
FormatMonth(t) == FormatYear(t) \o <<"+">> \o ZeroPad(Itoa(Civil(t).month), 2)
FormatDay(t) == FormatMonth(t) \o <<"+">> \o ZeroPad(Itoa(Civil(t).day), 2)

(***************************************************************************)
(* utils.go                                                                *)
(***************************************************************************)
RECURSIVE Pow10(_)
Pow10(i) == IF i = 0 THEN 1 ELSE 10 * Pow10(i - 1)

\* int(math.Log10(float64(n))) + 1 for n > 0: the number of decimal digits
NumDigits(n) == Len(Itoa(n))

RECURSIVE DiminishingLoopAppendAll(_, _, _, _)
\* DiminishingLoop without the test "if rounded != results[len(results)-1]"
DiminishingLoopAppendAll(n, i, digits, results) ==
    IF i >= digits THEN results
    ELSE DiminishingLoopAppendAll(n, i + 1, digits,
             Append(results, n - (n % Pow10(i + 1))))

RECURSIVE DiminishingLoop(_, _, _, _)
DiminishingLoop(n, i, digits, results) ==
    IF i >= digits THEN results
    ELSE LET power == Pow10(i + 1)
             rounded == n - (n % power)
         IN  DiminishingLoop(n, i + 1, digits,
                 IF rounded # results[Len(results)]
                 THEN Append(results, rounded)
                 ELSE results)

DiminishingOrders(n) ==
    IF n = 0 THEN <<0>> ELSE DiminishingLoop(n, 0, NumDigits(n), <<n>>)

\* reverse leaving the order as it is
reverseInPlace(s) == s

reverse(s) == [i \in 1..Len(s) |-> s[Len(s) + 1 - i]]

\* a transaction without a sender (From == nil)
Nil == <<"nil">>

pubKeyToString(ppk) == IF ppk = Nil THEN pad44(<<"0">>) ELSE ppk

(***************************************************************************)
(* The path codec of the indexer.                                          *)
(***************************************************************************)
\* the leading run of '+' folded onto the node before: lines 206-213
FoldNext(nodes, i) ==
    IF i + 1 <= Len(nodes) /\ HasPrefix(nodes[i + 1], <<"+">>)
    THEN nodes[i] \o <<"/">> \o SplitFirst(nodes[i + 1], Trim(nodes[i + 1], {"+"}))
    ELSE nodes[i]

inflateNodes(pubKey) ==
    LET coarse == Split(TrimRight(pubKey, {"/", "+", "0", "="}), <<"/">>)
        splitPK == Split(TrimRight(pubKey, {"0", "="}), <<"/">>)
        last == splitPK[Len(splitPK)]
        isRevision == Trim(last, {"+"}) = <<>>
        nodes == IF isRevision THEN SubSeq(splitPK, 1, Len(splitPK) - 1) ELSE splitPK
    IN  IF coarse[1] = <<>>
        THEN [ok |-> FALSE, rootdir |-> <<>>, nodes |-> <<>>, revision |-> 0]
        ELSE IF \E i \in 1..Len(coarse) : coarse[i] = <<>>
        THEN [ok |-> FALSE, rootdir |-> <<>>, nodes |-> <<pubKey>>, revision |-> 0]
        ELSE [ok |-> TRUE,
              rootdir |-> splitPK[1],
              nodes |-> [i \in 1..Len(nodes) |-> FoldNext(nodes, i)],
              revision |-> IF isRevision THEN Len(last) ELSE 0]

\* regexp `//([^/]+)//` finds a match somewhere in s
MatchesLabel(s) ==
    \E i \in 1..Len(s), j \in 1..Len(s) :
        /\ i + 3 <= j
        /\ j + 1 <= Len(s)
        /\ SubSeq(s, i, i + 1) = <<"/", "/">>
        /\ SubSeq(s, j, j + 1) = <<"/", "/">>
        /\ \A k \in (i + 2)..(j - 1) : s[k] # "/"

isLabelling(key) ==
    LET trimmed == TrimRight(key, {"0", "="})
    IN  IF HasPrefix(key, <<"/", "/">>) /\ MatchesLabel(trimmed)
        THEN [ok |-> TRUE, label |-> ReplaceAll(Trim(trimmed, {"/"}), "+", " ")]
        ELSE [ok |-> FALSE, label |-> <<>>]

(***************************************************************************)
(* Rationals [n, d] with d > 0, kept in lowest terms.                      *)
(***************************************************************************)
RECURSIVE GCD(_, _)
GCD(a, b) == IF b = 0 THEN a ELSE GCD(b, a % b)

Abs(x) == IF x < 0 THEN -x ELSE x

Rat(n, d) == LET g == GCD(Abs(n), d) IN [n |-> n \div g, d |-> d \div g]

RZero == [n |-> 0, d |-> 1]
ROne == [n |-> 1, d |-> 1]
RAdd(a, b) == Rat(a.n * b.d + b.n * a.d, a.d * b.d)
RSub(a, b) == Rat(a.n * b.d - b.n * a.d, a.d * b.d)
RMul(a, b) == Rat(a.n * b.n, a.d * b.d)
RAbs(a) == [n |-> Abs(a.n), d |-> a.d]

RECURSIVE RSum(_, _)
\* the sum of f[i] over the finite set S of keys
RSum(f, S) ==
    IF S = {} THEN RZero
    ELSE LET i == CHOOSE x \in S : TRUE IN RAdd(f[i], RSum(f, S \ {i}))

RECURSIVE Sum(_, _)
Sum(f, S) ==
    IF S = {} THEN 0
    ELSE LET i == CHOOSE x \in S : TRUE IN f[i] + Sum(f, S \ {i})

(***************************************************************************)
(* dir_graph.go                                                            *)
(***************************************************************************)
NoMap == <<>>

NewGraph == [index |-> NoMap, nodes |-> NoMap, edges |-> NoMap]

\* AddNode numbering the nodes from 1
AddNodeFromOne(graph, id) ==
    IF id \in DOMAIN graph.index
    THEN graph
    ELSE LET index == Cardinality(DOMAIN graph.index) + 1
         IN  [graph EXCEPT
                 !.index = (id :> index) @@ graph.index,
                 !.nodes = (index :> [pubkey |-> id, ranking |-> RZero, outbound |-> 0])
                           @@ graph.nodes]

\* Link's "if _, ok := graph.index[id]; !ok" block
AddNode(graph, id) ==
    IF id \in DOMAIN graph.index
    THEN graph
    ELSE LET index == Cardinality(DOMAIN graph.index)
         IN  [graph EXCEPT
                 !.index = (id :> index) @@ graph.index,
                 !.nodes = (index :> [pubkey |-> id, ranking |-> RZero, outbound |-> 0])
                           @@ graph.nodes]

Row(graph, sIndex) ==
    IF sIndex \in DOMAIN graph.edges THEN graph.edges[sIndex] ELSE NoMap

\* Link with the height and time of an edge written only when it is created
LinkKeepingProvenance(graph, src, tgt, weight, height, time) ==
    LET source == pad44(src)
        target == pad44(tgt)
        g2 == AddNode(AddNode(graph, source), target)
        sIndex == g2.index[source]
        tIndex == g2.index[target]
        row == Row(g2, sIndex)
        e == IF tIndex \in DOMAIN row
             THEN [row[tIndex] EXCEPT !.weight = @ + weight]
             ELSE [weight |-> weight, height |-> height, time |-> time]
    IN  [index |-> g2.index,
         nodes |-> [g2.nodes EXCEPT ![sIndex].outbound = @ + weight],
         edges |-> (sIndex :> ((tIndex :> e) @@ row)) @@ g2.edges]

\* Link without line 78, the outbound sum of the source
LinkNoOutbound(graph, src, tgt, weight, height, time) ==
    LET source == pad44(src)
        target == pad44(tgt)
        g2 == AddNode(AddNode(graph, source), target)
        sIndex == g2.index[source]
        tIndex == g2.index[target]
        row == Row(g2, sIndex)
        old == IF tIndex \in DOMAIN row
               THEN row[tIndex]
               ELSE [weight |-> 0, height |-> 0, time |-> 0]
        e == [weight |-> old.weight + weight, height |-> height, time |-> time]
    IN  [index |-> g2.index,
         nodes |-> g2.nodes,
         edges |-> (sIndex :> ((tIndex :> e) @@ row)) @@ g2.edges]

Link(graph, src, tgt, weight, height, time) ==
    LET source == pad44(src)
        target == pad44(tgt)
        g2 == AddNode(AddNode(graph, source), target)
        sIndex == g2.index[source]
        tIndex == g2.index[target]
        row == Row(g2, sIndex)
        old == IF tIndex \in DOMAIN row
               THEN row[tIndex]
               ELSE [weight |-> 0, height |-> 0, time |-> 0]
        e == [weight |-> old.weight + weight, height |-> height, time |-> time]
    IN  [index |-> g2.index,
         nodes |-> [g2.nodes EXCEPT ![sIndex].outbound = @ + weight],
         edges |-> (sIndex :> ((tIndex :> e) @@ row)) @@ g2.edges]

\* dfs that looks at current alone and follows no edge
dfsNoDescent(g, current, target, visited) ==
    [found |-> current = target, visited |-> visited \cup {current}]

RECURSIVE dfs(_, _, _, _)
RECURSIVE dfsRange(_, _, _, _)
\* dfs returns whether target was reached and the visited set it leaves.
\* The range loop over g.edges[current] is taken in ascending order; Go's
\* map order is unspecified and the boolean result does not depend on it.
dfs(g, current, target, visited) ==
    IF current = target
    THEN [found |-> TRUE, visited |-> visited]
    ELSE dfsRange(g, DOMAIN Row(g, current), target, visited \cup {current})

dfsRange(g, todo, target, visited) ==
    IF todo = {}
    THEN [found |-> FALSE, visited |-> visited]
    ELSE LET edge == CHOOSE x \in todo : \A y \in todo : x <= y
             rest == todo \ {edge}
         IN  IF edge = 0 \/ edge \in visited
             THEN dfsRange(g, rest, target, visited)
             ELSE LET r == dfs(g, edge, target, visited)
                  IN  IF r.found THEN r ELSE dfsRange(g, rest, target, r.visited)

\* IsParentDescendant without the test "parentIndex == 0 || descendantIndex == 0"
IsParentDescendantFromRoot(g, parent, descendant) ==
    IF parent \notin DOMAIN g.index \/ descendant \notin DOMAIN g.index
    THEN FALSE
    ELSE dfs(g, g.index[parent], g.index[descendant], {}).found

IsParentDescendant(g, parent, descendant) ==
    IF parent \notin DOMAIN g.index \/ descendant \notin DOMAIN g.index
    THEN FALSE
    ELSE LET parentIndex == g.index[parent]
             descendantIndex == g.index[descendant]
         IN  IF parentIndex = 0 \/ descendantIndex = 0
             THEN FALSE
             ELSE dfs(g, parentIndex, descendantIndex, {}).found

\* Rank: normalizedWeights[source][target], present when outbound > 0
normalizedWeights(graph) ==
    [source \in {s \in DOMAIN graph.edges : graph.nodes[s].outbound > 0} |->
        [target \in DOMAIN graph.edges[source] |->
            Rat(graph.edges[source][target].weight, graph.nodes[source].outbound)]]

\* Rank up to the loop: every ranking becomes inverse = 1/N
RankStart(graph) ==
    [graph EXCEPT !.nodes =
        [key \in DOMAIN graph.nodes |->
            [graph.nodes[key] EXCEPT !.ranking = Rat(1, Cardinality(DOMAIN graph.nodes))]]]

\* rankGraph calls Rank(1.0, 1e-6): alpha, and epsilon as 1/epsilonInverse
alpha == ROne

epsilonInverse == 1000000

\* the loop condition "delta > epsilon", negated: n/d <= 1/epsilonInverse
Converged(d) == d.n <= d.d \div epsilonInverse

\* RankPass without "+ leak*inverse": the rank of the nodes with no outbound
\* weight is dropped
RankPassNoLeak(graph) ==
    LET keys == DOMAIN graph.nodes
        inverse == Rat(1, Cardinality(keys))
        nodes == [key \in keys |-> graph.nodes[key].ranking]
        nw == normalizedWeights(graph)
        inflow(target) ==
            RSum([source \in DOMAIN nw |->
                     IF target \in DOMAIN nw[source]
                     THEN RMul(RMul(alpha, nodes[source]), nw[source][target])
                     ELSE RZero],
                 DOMAIN nw)
        teleport == RMul(RSub(ROne, alpha), inverse)
    IN  [graph EXCEPT !.nodes =
            [key \in keys |->
                [graph.nodes[key] EXCEPT !.ranking = RAdd(inflow(key), teleport)]]]

\* one pass of the body of "for delta > epsilon": the rankings it leaves
RankPass(graph) ==
    LET keys == DOMAIN graph.nodes
        inverse == Rat(1, Cardinality(keys))
        nodes == [key \in keys |-> graph.nodes[key].ranking]
        leak == RMul(RSum(nodes, {key \in keys : graph.nodes[key].outbound = 0}), alpha)
        nw == normalizedWeights(graph)
        inflow(target) ==
            RSum([source \in DOMAIN nw |->
                     IF target \in DOMAIN nw[source]
                     THEN RMul(RMul(alpha, nodes[source]), nw[source][target])
                     ELSE RZero],
                 DOMAIN nw)
        teleport == RAdd(RMul(RSub(ROne, alpha), inverse), RMul(leak, inverse))
    IN  [graph EXCEPT !.nodes =
            [key \in keys |->
                [graph.nodes[key] EXCEPT !.ranking = RAdd(inflow(key), teleport)]]]

\* the delta the pass ends with: the sum of |ranking - nodes[key]|
RankDelta(before, after) ==
    RSum([key \in DOMAIN before.nodes |->
             RAbs(RSub(after.nodes[key].ranking, before.nodes[key].ranking))],
         DOMAIN before.nodes)

Rankings(graph) == [key \in DOMAIN graph.nodes |-> graph.nodes[key].ranking]

\* the rankings are within the denominators the model follows
RankInRange(graph) ==
    \A key \in DOMAIN graph.nodes : graph.nodes[key].ranking.d <= MaxDen

(***************************************************************************)
(* The indexer: indexTransactions.                                         *)
(*                                                                         *)
(* A transaction is [From, To, Amount, Time, Memo]; From and To are the    *)
(* base-64 strings of the keys, From is Nil for a coinbase.  The indexer's *)
(* maps are the record idx = [directories, dirGraphs, dirBalances,         *)
(* keyState].                                                              *)
(***************************************************************************)
Put(m, k, v) == (k :> v) @@ m

\* a read of a map of integers: zero for a missing key and for a nil map
Balance(balances, k) == IF k \in DOMAIN balances THEN balances[k] ELSE 0

NewIndexer ==
    [directories |-> NoMap, dirGraphs |-> NoMap, dirBalances |-> NoMap, keyState |-> NoMap]

NewKeyState == [label |-> <<>>, memo |-> <<>>, revision |-> 0, time |-> 0]

KeyStateOf(idx, k) == IF k \in DOMAIN idx.keyState THEN idx.keyState[k] ELSE NewKeyState

HexDigits ==
    <<"0", "1", "2", "3", "4", "5", "6", "7", "8", "9", "a", "b", "c", "d", "e", "f">>

\* the transactions the model indexes, in a fixed order
DirectoryID == <<"0", "1">>
CreditMemo == <<"/">> \o DirectoryID \o <<"/">>

KeyA == Repeat("A", 43) \o <<"=">>
KeyB == Repeat("B", 43) \o <<"=">>
LabelKey == pad44(<<"/", "/", "d", "/", "/">>)
PathKey == pad44(<<"d", "/", "a", "/", "+">>)
RootPathKey == pad44(<<"d", "/">>)

Txn(from, to, amount, memo) ==
    [From |-> from, To |-> to, Amount |-> amount, Time |-> 0, Memo |-> memo]

Transactions ==
    << Txn(Nil, LabelKey, 0, <<>>),
       Txn(KeyA, LabelKey, 1, <<" ">> \o CreditMemo \o <<" ">>),
       Txn(KeyA, KeyB, 1, CreditMemo),
       Txn(KeyA, KeyB, 4, CreditMemo),
       Txn(KeyB, KeyA, 1, CreditMemo),
       Txn(KeyB, KeyA, 4, CreditMemo),
       Txn(KeyA, KeyA, 1, CreditMemo),
       Txn(KeyA, PathKey, 4, <<>>),
       Txn(KeyA, RootPathKey, 4, <<>>) >>

\* a second set of transactions, on a directory labelled "docs"
DocsID == <<"0", "a">>
DocsMemo == <<"/">> \o DocsID \o <<"/">>
DocsLabelKey == pad44(<<"/", "/", "d", "o", "c", "s", "/", "/">>)
SpacedLabelKey == pad44(<<"/", "/", "m", "y", "+", "d", "o", "c", "s", "/", "/">>)
DocsPathKey == pad44(<<"d", "o", "c", "s", "/", "i", "n", "t", "r", "o", "/", "+">>)

DocsDirectory == Txn(Nil, DocsLabelKey, 0, <<>>)
SpacedDirectory == Txn(Nil, SpacedLabelKey, 3, DocsMemo)
DocsCredit == Txn(KeyB, KeyA, 100, DocsMemo)
DocsPath == Txn(KeyA, DocsPathKey, 100, <<>>)
DocsPathAgain == Txn(KeyA, DocsPathKey, 8, <<>>)
DocsLabelSender == Txn(KeyA, DocsLabelKey, 2, <<" ">> \o DocsMemo \o <<" ">>)
DocsLabelByMemo == Txn(KeyB, SpacedLabelKey, 2, DocsMemo)

DocsTransactions ==
    << DocsDirectory, SpacedDirectory, DocsCredit, DocsPath, DocsPathAgain,
       DocsLabelSender, DocsLabelByMemo >>

\* a second directory transaction with the label "docs"; its id is 11
DocsTwin == Txn(Nil, DocsLabelKey, 1, <<>>)
TwinTransactions == << DocsDirectory, DocsTwin, DocsCredit, DocsPath >>

\* txn.ID().String(): the hash of a transaction in hex, one value per
\* transaction
ID(txn) ==
    LET all == Transactions \o DocsTransactions \o <<DocsTwin>>
        i == CHOOSE k \in 1..Len(all) : all[k] = txn
    IN  <<HexDigits[(i \div 16) + 1], HexDigits[(i % 16) + 1]>>

\* lines 263-277: a directory is announced, or the sender's key is labelled
LabellingCase(idx, txn, txnFrom, label) ==
    IF txn.From = Nil
    THEN [idx EXCEPT
             !.directories = Put(idx.directories, ID(txn), label),
             !.dirGraphs = Put(idx.dirGraphs, ID(txn), NewGraph),
             !.dirBalances = Put(idx.dirBalances, ID(txn), NoMap)]
    ELSE [idx EXCEPT
             !.keyState = Put(idx.keyState, txnFrom,
                 [KeyStateOf(idx, txnFrom) EXCEPT
                     !.label = label, !.memo = TrimSpace(txn.Memo)])]

\* CreditAndLink with the edge drawn from the sender whatever its balance
CreditAndLinkFromSender(idx, txn, dir, txnFrom, txnTo, incrementBy, height) ==
    LET credited == Put(idx.dirBalances[dir], txnTo,
                        Balance(idx.dirBalances[dir], txnTo) + incrementBy)
    IN  [idx |-> [idx EXCEPT
             !.dirGraphs[dir] = Link(@, txnFrom, txnTo, incrementBy, height, txn.Time),
             !.dirBalances[dir] = IF Balance(credited, txnFrom) > 0
                                  THEN Put(credited, txnFrom,
                                           Balance(credited, txnFrom) - incrementBy)
                                  ELSE credited],
         outcome |-> IF Balance(credited, txnFrom) > 0
                     THEN "creditSender" ELSE "creditRoot"]

\* lines 292-300: the credit to the directory dir once the cycle check has
\* passed, and the branch of "if idx.dirBalances[dir][txnFrom] > 0" it takes
CreditAndLink(idx, txn, dir, txnFrom, txnTo, incrementBy, height) ==
    LET credited == Put(idx.dirBalances[dir], txnTo,
                        Balance(idx.dirBalances[dir], txnTo) + incrementBy)
    IN  IF Balance(credited, txnFrom) > 0
        THEN [idx |-> [idx EXCEPT
                 !.dirGraphs[dir] = Link(@, txnFrom, txnTo, incrementBy, height, txn.Time),
                 !.dirBalances[dir] = Put(credited, txnFrom,
                                          Balance(credited, txnFrom) - incrementBy)],
              outcome |-> "creditSender"]
        ELSE [idx |-> [idx EXCEPT
                 !.dirGraphs[dir] = Link(@, pad44(<<"0">>), txnTo, incrementBy, height, txn.Time),
                 !.dirBalances[dir] = credited],
              outcome |-> "creditRoot"]

\* CreditCase with line 292, the credit of txnTo, moved above the cycle check
CreditCaseCreditFirst(idx, txn, dir, txnFrom, txnTo, incrementBy, height) ==
    IF IsParentDescendant(idx.dirGraphs[dir], txnTo, txnFrom)
    THEN [idx |-> [idx EXCEPT
             !.dirBalances[dir] = Put(@, txnTo, Balance(@, txnTo) + incrementBy)],
          outcome |-> "cycle"]
    ELSE CreditAndLink(idx, txn, dir, txnFrom, txnTo, incrementBy, height)

\* lines 286-300: the credit to the directory dir that the memo names
CreditCase(idx, txn, dir, txnFrom, txnTo, incrementBy, height) ==
    IF IsParentDescendant(idx.dirGraphs[dir], txnTo, txnFrom)
    THEN [idx |-> idx, outcome |-> "cycle"]
    ELSE CreditAndLink(idx, txn, dir, txnFrom, txnTo, incrementBy, height)

\* the Link calls of the four dimensions, in order, as <<src, tgt, time offset>>
TemporalLinks(txnTo, time) ==
    << <<txnTo, FormatDay(time), 20>>,
       <<FormatDay(time), FormatMonth(time), 21>>,
       <<FormatMonth(time), FormatYear(time), 22>>,
       <<FormatYear(time), <<"0">>, 23>> >>

RevisionLinks(txnTo, revision) ==
    LET revisionNode == <<"+">> \o Itoa(revision)
    IN  << <<txnTo, revisionNode, 30>>, <<revisionNode, <<"0">>, 31>> >>

RECURSIVE SpatialLinks(_, _, _)
\* the passes i = p - 1, ... of the loop over reversedNodes
SpatialLinks(txnTo, reversedNodes, p) ==
    IF p > Len(reversedNodes) THEN <<>>
    ELSE LET node == reversedNodes[p]
             additive == 40 + (p - 1)
         IN  (IF p = 1 THEN << <<txnTo, node, additive>> >> ELSE <<>>)
             \o (IF p + 1 <= Len(reversedNodes)
                 THEN << <<node, reversedNodes[p + 1], additive + p>> >>
                 ELSE <<>>)
             \o (IF p = Len(reversedNodes)
                 THEN << <<node, <<"0">>, additive + p>> >>
                 ELSE <<>>)
             \o SpatialLinks(txnTo, reversedNodes, p + 1)

\* PeriodicLinks without its last Link call
PeriodicLinksCutShort(txnTo, height) ==
    LET orders == DiminishingOrders(height)
    IN  << <<txnTo, Itoa(height), 10>> >>
        \o [j \in 1..(Len(orders) - 2) |-> <<Itoa(orders[j]), Itoa(orders[j + 1]), 10 + j>>]

PeriodicLinks(txnTo, height) ==
    LET orders == DiminishingOrders(height)
    IN  << <<txnTo, Itoa(height), 10>> >>
        \o [j \in 1..(Len(orders) - 1) |-> <<Itoa(orders[j]), Itoa(orders[j + 1]), 10 + j>>]

DimensionLinks(txnTo, nodes, revision, height, time) ==
    TemporalLinks(txnTo, time) \o RevisionLinks(txnTo, revision)
    \o SpatialLinks(txnTo, reverse(nodes), 1) \o PeriodicLinks(txnTo, height)

RECURSIVE LinkAll(_, _, _, _, _)
LinkAll(graph, links, weight, height, time) ==
    IF links = <<>> THEN graph
    ELSE LinkAll(Link(graph, links[1][1], links[1][2], weight, height, time + links[1][3]),
                 Tail(links), weight, height, time)

\* PathCase with the revision node numbered one further at every insertion
\* of the key
PathCaseCountingRevisions(idx, txn, dir, txnFrom, txnTo, inflated, incrementBy, height) ==
    LET DIMENSION_WEIGHT == incrementBy \div 4
        linked == Link(idx.dirGraphs[dir], txnFrom, txnTo, incrementBy, height, txn.Time)
        revision == KeyStateOf(idx, pad44(txnTo)).revision + inflated.revision
    IN  [idx EXCEPT
            !.dirGraphs[dir] =
                LinkAll(linked,
                        DimensionLinks(txnTo, inflated.nodes, revision, height, txn.Time),
                        DIMENSION_WEIGHT, height, txn.Time),
            !.dirBalances[dir] = Put(@, txnFrom, Balance(@, txnFrom) - incrementBy),
            !.keyState = Put(idx.keyState, pad44(txnTo),
                [time |-> txn.Time,
                 revision |-> revision,
                 label |-> inflated.nodes[Len(inflated.nodes)],
                 memo |-> txn.Memo])]

\* lines 325-403: the path insertion into the directory dir
PathCase(idx, txn, dir, txnFrom, txnTo, inflated, incrementBy, height) ==
    LET DIMENSION_WEIGHT == incrementBy \div 4
        linked == Link(idx.dirGraphs[dir], txnFrom, txnTo, incrementBy, height, txn.Time)
    IN  [idx EXCEPT
            !.dirGraphs[dir] =
                LinkAll(linked,
                        DimensionLinks(txnTo, inflated.nodes, inflated.revision, height, txn.Time),
                        DIMENSION_WEIGHT, height, txn.Time),
            !.dirBalances[dir] = Put(@, txnFrom, Balance(@, txnFrom) - incrementBy),
            !.keyState = Put(idx.keyState, pad44(txnTo),
                [time |-> txn.Time,
                 revision |-> inflated.revision,
                 label |-> inflated.nodes[Len(inflated.nodes)],
                 memo |-> txn.Memo])]

\* lines 311-317: the directories the range loop can leave selected for the
\* label dirlbl; with several of that label Go's map order decides, Nil is none
DirectoryChoices(idx, dirlbl) ==
    LET matching == {key \in DOMAIN idx.directories : idx.directories[key] = dirlbl}
    IN  IF matching = {} THEN {Nil} ELSE matching

\* one pass of the loop of indexTransactions, lines 240-405: the indexer it
\* leaves and the branch it took.  pick is the directory the range loop of
\* lines 311-317 selects.
IndexTransaction(idx, txn, height, increment, pick) ==
    LET txnFrom == pubKeyToString(txn.From)
        txnTo == pubKeyToString(txn.To)
        incrementBy == IF increment THEN txn.Amount ELSE 0
        labelling == isLabelling(txnTo)
        trimmedSysMemo == Trim(txn.Memo, {"/"})
        inflated == inflateNodes(txnTo)
    IN  IF labelling.ok
        THEN [idx |-> LabellingCase(idx, txn, txnFrom, labelling.label),
              outcome |-> IF txn.From = Nil THEN "directory" ELSE "label"]
        ELSE IF trimmedSysMemo \in DOMAIN idx.directories
        THEN CreditCase(idx, txn, trimmedSysMemo, txnFrom, txnTo, incrementBy, height)
        ELSE IF (IF pick = Nil THEN 0 ELSE Balance(idx.dirBalances[pick], txnFrom))
                    < incrementBy
        THEN [idx |-> idx,
              outcome |-> IF pick = Nil THEN "nodirectory" ELSE "insufficient"]
        ELSE IF inflated.ok /\ pick # Nil
        THEN [idx |-> PathCase(idx, txn, pick, txnFrom, txnTo, inflated,
                               incrementBy, height),
              outcome |-> "path"]
        ELSE [idx |-> idx,
              outcome |-> IF pick = Nil THEN "nodirectory" ELSE "invalidpath"]

(***************************************************************************)
(* State.                                                                  *)
(***************************************************************************)
VARIABLES
    graph,      \* a Graph on its own, built by Link calls
    nLinks,     \* Link calls made on graph
    rankPc,     \* "idle", or "loop" while Rank(alpha, epsilon) runs on graph
    delta,      \* Rank's local delta
    rankNodes,  \* Rank's local map nodes: the rankings before the last pass
    directories,    \* Indexer.directories: directory id -> label
    dirGraphs,      \* Indexer.dirGraphs: directory id -> Graph
    dirBalances,    \* Indexer.dirBalances: directory id -> key -> balance
    keyState,       \* Indexer.keyState: key -> KeyState
    latestHeight,   \* Indexer.latestHeight
    last,           \* the last transaction indexed, and the branch it took
    nBlocks,        \* indexTransactions calls made
    pc,             \* where the goroutine of run is
    height,         \* run's local height
    chainLen,       \* height of the tip of the main chain
    ibd,            \* what IsInitialBlockDownload answers
    registered,     \* the processor holds tipChangeChan
    tipChangeChan,  \* run's local channel tipChangeChan
    shutdownChan,   \* Indexer.shutdownChan: "open" or "closed"
    shutdownPc,     \* where the caller of Shutdown is
    calls,          \* the calls of indexTransactions and rankGraph and the
                    \* reads of the store and the ledger that failed, in order
    rankTodo,       \* the graphs the loop of rankGraph has yet to rank
    rankDir,        \* the directory whose graph Rank is running on
    orderArg,       \* the n DiminishingOrders is called with
    orderResults,   \* what DiminishingOrders returned, <<>> before the call
    padInput,       \* the input pad44 is called with
    paddedString,   \* what pad44(padInput) returned
    repadded,       \* what pad44(paddedString) returned
    padPc,          \* "idle", "start", "padded", "done" or "panic"
    codecKey,       \* the key inflateNodes and isLabelling are called with
    inflateResult,  \* <<what inflateNodes(codecKey) returned>>, <<>> before the call
    labelResult     \* <<what isLabelling(codecKey) returned>>, <<>> before the call

graphVars == <<graph, nLinks, rankPc, delta, rankNodes>>
indexVars == <<directories, dirGraphs, dirBalances, keyState, latestHeight, last, nBlocks>>
runVars == <<pc, height, chainLen, ibd, registered, tipChangeChan, shutdownChan,
             shutdownPc, calls, rankTodo, rankDir>>
keyVars == <<codecKey, inflateResult, labelResult>>
utilVars == <<orderArg, orderResults, padInput, paddedString, repadded, padPc, keyVars>>
vars == <<graphVars, indexVars, runVars, utilVars>>

NoCall == [txn |-> Nil, increment |-> FALSE, branch |-> "none"]

Indexer ==
    [directories |-> directories, dirGraphs |-> dirGraphs,
     dirBalances |-> dirBalances, keyState |-> keyState]

IndexInit ==
    /\ directories = NewIndexer.directories
    /\ dirGraphs = NewIndexer.dirGraphs
    /\ dirBalances = NewIndexer.dirBalances
    /\ keyState = NewIndexer.keyState
    /\ latestHeight = 0
    /\ last = NoCall
    /\ nBlocks = 0

\* NewIndexer, lines 33-51, and what run declares: Run has not been called
RunIdle ==
    /\ pc = "new"
    /\ height = 0
    /\ chainLen = 0
    /\ ibd = FALSE
    /\ registered = FALSE
    /\ tipChangeChan = <<>>
    /\ shutdownChan = "open"
    /\ shutdownPc = "idle"
    /\ calls = <<>>
    /\ rankTodo = {}
    /\ rankDir = Nil

(***************************************************************************)
(* The graph on its own: any sequence of Link calls, with Rank calls in    *)
(* between.                                                                *)
(***************************************************************************)
LinkIds == {<<"0">>, KeyA, KeyB}
LinkWeights == {0, 1}
LinkHeights == {1, 2}

\* no call of DiminishingOrders or pad44 on their own
KeyIdle ==
    /\ codecKey = <<>>
    /\ inflateResult = <<>>
    /\ labelResult = <<>>

UtilIdle ==
    /\ KeyIdle
    /\ orderArg = 0
    /\ orderResults = <<>>
    /\ padInput = <<>>
    /\ paddedString = <<>>
    /\ repadded = <<>>
    /\ padPc = "idle"

GraphOnlyInit ==
    /\ graph = NewGraph
    /\ nLinks = 0
    /\ rankPc = "idle"
    /\ delta = ROne
    /\ rankNodes = NoMap

GraphInit == GraphOnlyInit /\ IndexInit /\ RunIdle /\ UtilIdle

GraphLink ==
    /\ rankPc = "idle"
    /\ nLinks < MaxLinks
    /\ \E src \in LinkIds, tgt \in LinkIds, w \in LinkWeights, h \in LinkHeights :
          graph' = Link(graph, src, tgt, w, h, 10 * h)
    /\ nLinks' = nLinks + 1
    /\ UNCHANGED <<utilVars, rankPc, delta, rankNodes, indexVars, runVars>>

\* Rank is called: lines 200-217
GraphRankCall ==
    /\ rankPc = "idle"
    /\ graph' = RankStart(graph)
    /\ delta' = ROne
    /\ rankNodes' = NoMap
    /\ rankPc' = "loop"
    /\ UNCHANGED <<utilVars, nLinks, indexVars, runVars>>

\* one iteration of the loop: lines 219-248
GraphRankIterate ==
    /\ rankPc = "loop"
    /\ ~Converged(delta)
    /\ RankInRange(graph)
    /\ LET after == RankPass(graph)
       IN  /\ graph' = after
           /\ delta' = RankDelta(graph, after)
    /\ rankNodes' = Rankings(graph)
    /\ UNCHANGED <<utilVars, nLinks, rankPc, indexVars, runVars>>

\* the loop condition fails and Rank returns
GraphRankReturn ==
    /\ rankPc = "loop"
    /\ Converged(delta)
    /\ rankPc' = "idle"
    /\ delta' = ROne
    /\ rankNodes' = NoMap
    /\ UNCHANGED <<utilVars, graph, nLinks, indexVars, runVars>>

GraphNext == GraphLink \/ GraphRankCall \/ GraphRankIterate \/ GraphRankReturn

GraphSpec == GraphInit /\ [][GraphNext]_vars

(***************************************************************************)
(* The indexer fed any sequence of blocks.  An action indexes a block of   *)
(* one transaction; the loop of indexTransactions carries nothing from one *)
(* transaction to the next, so a longer block is its transactions indexed  *)
(* one after the other under the same height and connect flag.             *)
(***************************************************************************)
Heights == {0, 12}

Init == GraphOnlyInit /\ IndexInit /\ RunIdle /\ UtilIdle

IndexTransactions ==
    /\ nBlocks < MaxBlocks
    /\ \E blockHeight \in Heights, increment \in BOOLEAN, t \in 1..Len(Transactions) :
          \E pick \in DirectoryChoices(Indexer,
                         inflateNodes(pubKeyToString(Transactions[t].To)).rootdir) :
             LET r == IndexTransaction(Indexer, Transactions[t], blockHeight, increment, pick)
             IN  /\ directories' = r.idx.directories
                 /\ dirGraphs' = r.idx.dirGraphs
                 /\ dirBalances' = r.idx.dirBalances
                 /\ keyState' = r.idx.keyState
                 /\ latestHeight' = blockHeight
                 /\ last' = [txn |-> Transactions[t], increment |-> increment,
                              branch |-> r.outcome]
    /\ nBlocks' = nBlocks + 1
    /\ UNCHANGED <<utilVars, graphVars, runVars>>

Next == IndexTransactions

Spec == Init /\ [][Next]_vars

(***************************************************************************)
(* A Graph built by Link calls over four identifiers, for the questions of *)
(* IsParentDescendant.  The weights of the calls alternate between 0 and 1.*)
(***************************************************************************)
KeyC == Repeat("C", 43) \o <<"=">>
DfsIds == {Root, KeyA, KeyB, KeyC}

DfsLink ==
    /\ rankPc = "idle"
    /\ nLinks < MaxDfsLinks
    /\ \E src \in DfsIds, tgt \in DfsIds :
          graph' = Link(graph, src, tgt, nLinks % 2, 1, 10)
    /\ nLinks' = nLinks + 1
    /\ UNCHANGED <<utilVars, rankPc, delta, rankNodes, indexVars, runVars>>

DfsNext == DfsLink

DfsSpec == GraphInit /\ [][DfsNext]_vars

(***************************************************************************)
(* The indexer fed blocks of one transaction each on the directory "docs". *)
(***************************************************************************)
DocsHeights == {7, 1234}

IndexDocsTransactions ==
    /\ nBlocks < MaxDocsBlocks
    /\ \E blockHeight \in DocsHeights, increment \in BOOLEAN, t \in 1..Len(DocsTransactions) :
          \E pick \in DirectoryChoices(Indexer,
                         inflateNodes(pubKeyToString(DocsTransactions[t].To)).rootdir) :
             LET r == IndexTransaction(Indexer, DocsTransactions[t], blockHeight, increment, pick)
             IN  /\ directories' = r.idx.directories
                 /\ dirGraphs' = r.idx.dirGraphs
                 /\ dirBalances' = r.idx.dirBalances
                 /\ keyState' = r.idx.keyState
                 /\ latestHeight' = blockHeight
                 /\ last' = [txn |-> DocsTransactions[t], increment |-> increment,
                              branch |-> r.outcome]
    /\ nBlocks' = nBlocks + 1
    /\ UNCHANGED <<utilVars, graphVars, runVars>>

DocsNext == IndexDocsTransactions

DocsSpec == Init /\ [][DocsNext]_vars

(***************************************************************************)
(* The indexer fed blocks of one transaction each, two of them directory   *)
(* transactions with the label "docs".                                     *)
(***************************************************************************)
IndexTwinTransactions ==
    /\ nBlocks < MaxTwinBlocks
    /\ \E blockHeight \in DocsHeights, increment \in BOOLEAN, t \in 1..Len(TwinTransactions) :
          \E pick \in DirectoryChoices(Indexer,
                         inflateNodes(pubKeyToString(TwinTransactions[t].To)).rootdir) :
             LET r == IndexTransaction(Indexer, TwinTransactions[t], blockHeight, increment, pick)
             IN  /\ directories' = r.idx.directories
                 /\ dirGraphs' = r.idx.dirGraphs
                 /\ dirBalances' = r.idx.dirBalances
                 /\ keyState' = r.idx.keyState
                 /\ latestHeight' = blockHeight
                 /\ last' = [txn |-> TwinTransactions[t], increment |-> increment,
                              branch |-> r.outcome]
    /\ nBlocks' = nBlocks + 1
    /\ UNCHANGED <<utilVars, graphVars, runVars>>

TwinNext == IndexTwinTransactions

TwinSpec == Init /\ [][TwinNext]_vars

(***************************************************************************)
(* DiminishingOrders called on its own.                                    *)
(***************************************************************************)
OrdersInit ==
    /\ GraphOnlyInit /\ IndexInit /\ RunIdle /\ KeyIdle
    /\ orderArg \in 0..MaxOrderArg
    /\ orderResults = <<>>
    /\ padInput = <<>>
    /\ paddedString = <<>>
    /\ repadded = <<>>
    /\ padPc = "idle"

CallDiminishingOrders ==
    /\ orderResults = <<>>
    /\ orderResults' = DiminishingOrders(orderArg)
    /\ UNCHANGED <<graphVars, indexVars, runVars, keyVars, orderArg, padInput, paddedString,
                   repadded, padPc>>

OrdersNext == CallDiminishingOrders

OrdersSpec == OrdersInit /\ [][OrdersNext]_vars

(***************************************************************************)
(* pad44 called on its own, and again on what it returned.                 *)
(***************************************************************************)
PadHeads == {<<>>, <<"0">>, <<"/">>, <<"a", "/">>, <<"=">>}

PadInputs ==
    {head \o Repeat(c, k) : head \in PadHeads, c \in {"a", "0"}, k \in 0..MaxPadFill}

PadInit ==
    /\ GraphOnlyInit /\ IndexInit /\ RunIdle /\ KeyIdle
    /\ orderArg = 0
    /\ orderResults = <<>>
    /\ padInput \in PadInputs
    /\ paddedString = <<>>
    /\ repadded = <<>>
    /\ padPc = "start"

CallPad44 ==
    /\ padPc = "start"
    /\ paddedString' = pad44(padInput)
    /\ padPc' = IF paddedString' = Panic THEN "panic" ELSE "padded"
    /\ UNCHANGED <<graphVars, indexVars, runVars, keyVars, orderArg, orderResults, padInput,
                   repadded>>

CallPad44Again ==
    /\ padPc = "padded"
    /\ repadded' = pad44(paddedString)
    /\ padPc' = IF repadded' = Panic THEN "panic" ELSE "done"
    /\ UNCHANGED <<graphVars, indexVars, runVars, keyVars, orderArg, orderResults, padInput,
                   paddedString>>

PadNext == CallPad44 \/ CallPad44Again

PadSpec == PadInit /\ [][PadNext]_vars

(***************************************************************************)
(* inflateNodes and isLabelling called on their own, on one key.           *)
(***************************************************************************)
\* what the sender of a path transaction writes before the padding
PathHeads ==
    {<<"d", "/", "a", "/", "+">>,
     <<"d", "/">>,
     <<"d", "/", "a">>,
     <<"d", "/", "+", "a", "/", "b">>,
     <<"d", "/", "+", "+", "a", "+", "/", "b", "/", "+", "+">>,
     <<"d", "/", "+", "+", "/", "a", "/", "+">>,
     <<"d", "/", "+", "+", "/", "+">>,
     <<"d", "/", "+", "/", "a">>,
     <<"d", "/", "+", "/", "+">>,
     <<"d", "/", "a", "/", "+", "/">>,
     <<"d", "/", "/", "a">>,
     <<"/", "d", "/", "a">>,
     <<"+">>,
     <<>>,
     <<"d", "/", "a", "+", "/", "b">>,
     <<"d", "/", "+", "+", "+", "a", "/", "+", "b", "/", "+", "+", "+">>,
     <<"d", "/", "+", "+">>,
     <<"d", "/", "+", "a">>,
     <<"0">>,
     <<"d", "/", "a", "/", "/">>,
     <<"d">>,
     <<"d", "/", "+", "a", "+", "a", "/", "b">>}

\* what the sender of a labelling transaction writes before the padding
LabelHeads ==
    {<<"/", "/", "d", "/", "/">>,
     <<"/", "/", "m", "y", "+", "d", "o", "c", "s", "/", "/">>,
     <<"/", "/", "d", "/">>,
     <<"/", "/", "a", "/", "b", "/", "/", "c", "/", "/">>,
     <<"/", "/", "d", "/", "/", "x">>,
     <<"x", "/", "/", "d", "/", "/">>,
     <<"/", "/", "/", "/">>,
     <<"/", "/", "+", "/", "/">>,
     <<"/", "/", "/", "d", "/", "/">>,
     <<"/", "/", "d">>,
     <<"/", "/", "a", "/", "/", "b", "/", "/">>,
     <<"/", "/", "d", "/", "/", "/">>,
     <<"/", "/">>}

\* each head as it is and padded to the length of a public key
KeyInputs ==
    LET heads == PathHeads \cup LabelHeads
    IN  heads \cup {pad44(head) : head \in heads}

KeyInit ==
    /\ GraphOnlyInit /\ IndexInit /\ RunIdle
    /\ orderArg = 0
    /\ orderResults = <<>>
    /\ padInput = <<>>
    /\ paddedString = <<>>
    /\ repadded = <<>>
    /\ padPc = "idle"
    /\ codecKey \in KeyInputs
    /\ inflateResult = <<>>
    /\ labelResult = <<>>

CallInflateNodes ==
    /\ inflateResult = <<>>
    /\ inflateResult' = <<inflateNodes(codecKey)>>
    /\ UNCHANGED <<graphVars, indexVars, runVars, orderArg, orderResults, padInput,
                   paddedString, repadded, padPc, codecKey, labelResult>>

CallIsLabelling ==
    /\ labelResult = <<>>
    /\ labelResult' = <<isLabelling(codecKey)>>
    /\ UNCHANGED <<graphVars, indexVars, runVars, orderArg, orderResults, padInput,
                   paddedString, repadded, padPc, codecKey, inflateResult>>

KeyNext == CallInflateNodes \/ CallIsLabelling

KeySpec == KeyInit /\ [][KeyNext]_vars

(***************************************************************************)
(* The indexer task, the caller of Shutdown, the processor and the ledger. *)
(* The main chain is a fixed list of blocks, of which the processor has    *)
(* connected the first chainLen.                                           *)
(***************************************************************************)
\* the height of the block NewIndexer is given as genesisBlockID
StartHeight == 1

\* make(chan TipChange, 1), line 152
TipChanCap == 1

\* the block of the main chain at height h
BlockAt(h) ==
    IF h = 1
    THEN <<Txn(Nil, LabelKey, 0, <<>>),
           Txn(KeyB, KeyA, 1, CreditMemo),
           Txn(KeyA, Root, 1, CreditMemo)>>
    ELSE IF h = 2
    THEN <<Txn(KeyA, KeyB, 1, CreditMemo),
           Txn(KeyB, Root, 1, CreditMemo)>>
    ELSE <<Txn(KeyA, KeyB, 1, CreditMemo)>>

RECURSIVE IndexBlockBackwards(_, _, _, _, _)
\* IndexBlock taking the transactions of block from the last to the first
IndexBlockBackwards(rs, block, t, blockHeight, increment) ==
    IF t > Len(block)
    THEN rs
    ELSE LET txn == block[Len(block) + 1 - t]
         IN  IndexBlockBackwards(
                UNION {{IndexTransaction(r.idx, txn, blockHeight, increment, pick) :
                          pick \in DirectoryChoices(r.idx,
                                     inflateNodes(pubKeyToString(txn.To)).rootdir)} :
                       r \in rs},
                block, t + 1, blockHeight, increment)

\* lines 239-406: the loop of indexTransactions from transaction t of block
\* on, started in any of the states rs; the states it can end in
RECURSIVE IndexBlock(_, _, _, _, _)
IndexBlock(rs, block, t, blockHeight, increment) ==
    IF t > Len(block)
    THEN rs
    ELSE IndexBlock(
            UNION {{IndexTransaction(r.idx, block[t], blockHeight, increment, pick) :
                      pick \in DirectoryChoices(r.idx,
                                 inflateNodes(pubKeyToString(block[t].To)).rootdir)} :
                   r \in rs},
            block, t + 1, blockHeight, increment)

IndexCall(h, connect) == [op |-> "indexTransactions", height |-> h, connect |-> connect]
RankCall == [op |-> "rankGraph"]
\* a read of the block store or of the ledger that gave an error or nothing
FailedRead(name) == [op |-> name, failed |-> TRUE]

\* indexTransactions(block, id, increment), lines 234-407, on the block at
\* blockHeight
IndexTransactionsOf(blockHeight, increment) ==
    \E r \in IndexBlock({[idx |-> Indexer, outcome |-> "none"]},
                        BlockAt(blockHeight), 1, blockHeight, increment) :
        /\ directories' = r.idx.directories
        /\ dirGraphs' = r.idx.dirGraphs
        /\ dirBalances' = r.idx.dirBalances
        /\ keyState' = r.idx.keyState
        /\ latestHeight' = blockHeight
        /\ last' = [txn |-> BlockAt(blockHeight)[Len(BlockAt(blockHeight))],
                    increment |-> increment, branch |-> r.outcome]
        /\ nBlocks' = nBlocks + 1

Returned == {"fatal", "stopped"}

RunInit ==
    /\ GraphOnlyInit
    /\ IndexInit
    /\ UtilIdle
    /\ pc = "new"
    /\ height = 0
    /\ chainLen \in 0..MaxChain
    /\ ibd \in BOOLEAN
    /\ registered = FALSE
    /\ tipChangeChan = <<>>
    /\ shutdownChan = "open"
    /\ shutdownPc = "idle"
    /\ calls = <<>>
    /\ rankTodo = {}
    /\ rankDir = Nil

\* Run, lines 54-57
Run ==
    /\ pc = "new"
    /\ pc' = "start"
    /\ UNCHANGED <<utilVars, graphVars, indexVars, height, chainLen, ibd, registered,
                   tipChangeChan, shutdownChan, shutdownPc, calls, rankTodo, rankDir>>

\* lines 62-70 and 91: the first call of IsInitialBlockDownload
TaskStart ==
    /\ pc = "start"
    /\ \E err \in BOOLEAN :
          pc' = IF err THEN "panic" ELSE IF ibd THEN "ibdwait" ELSE "header"
    /\ UNCHANGED <<utilVars, graphVars, indexVars, height, chainLen, ibd, registered,
                   tipChangeChan, shutdownChan, shutdownPc, calls, rankTodo, rankDir>>

\* lines 78-88: the ticker fires
TaskIbdTick ==
    /\ pc = "ibdwait"
    /\ \E err \in BOOLEAN :
          pc' = IF err THEN "panic" ELSE IF ibd THEN "ibdwait" ELSE "header"
    /\ UNCHANGED <<utilVars, graphVars, indexVars, height, chainLen, ibd, registered,
                   tipChangeChan, shutdownChan, shutdownPc, calls, rankTodo, rankDir>>

\* lines 73-77: the closed shutdownChan is read while waiting for the sync
TaskIbdShutdown ==
    /\ pc = "ibdwait"
    /\ shutdownChan = "closed"
    /\ pc' = "stopped"
    /\ UNCHANGED <<utilVars, graphVars, indexVars, height, chainLen, ibd, registered,
                   tipChangeChan, shutdownChan, shutdownPc, calls, rankTodo, rankDir>>

\* lines 94-116: the header and the branch of latestBlockID
TaskHeader ==
    /\ pc = "header"
    /\ \E headerErr \in BOOLEAN, branchErr \in BOOLEAN, branchMain \in BOOLEAN :
          IF headerErr \/ chainLen < StartHeight
          THEN /\ pc' = "fatal"
               /\ calls' = Append(calls, FailedRead("GetBlockHeader"))
               /\ height' = height
          ELSE IF branchErr \/ ~branchMain
          THEN /\ pc' = "fatal"
               /\ calls' = Append(calls, FailedRead("GetBranchType"))
               /\ height' = height
          ELSE /\ pc' = "catchup"
               /\ height' = StartHeight
               /\ calls' = calls
    /\ UNCHANGED <<utilVars, graphVars, indexVars, chainLen, ibd, registered,
                   tipChangeChan, shutdownChan, shutdownPc, rankTodo, rankDir>>

\* TaskCatchUp with "break" where lines 129-139 return: a block that cannot
\* be read ends the loop as a missing block id does
TaskCatchUpBreakOnError ==
    /\ pc = "catchup"
    /\ \E idErr \in BOOLEAN, blockErr \in BOOLEAN :
          IF idErr
          THEN /\ pc' = "fatal"
               /\ calls' = Append(calls, FailedRead("GetBlockIDForHeight"))
               /\ UNCHANGED <<indexVars, height, rankTodo>>
          ELSE IF height > chainLen \/ blockErr
          THEN /\ height' = height - 1
               /\ pc' = "rankCatchUp"
               /\ rankTodo' = DOMAIN dirGraphs
               /\ calls' = IF height > chainLen
                           THEN Append(calls, RankCall)
                           ELSE Append(Append(calls, FailedRead("GetBlock")), RankCall)
               /\ UNCHANGED indexVars
          ELSE /\ IndexTransactionsOf(height, TRUE)
               /\ calls' = Append(calls, IndexCall(height, TRUE))
               /\ height' = height + 1
               /\ UNCHANGED <<pc, rankTodo>>
    /\ UNCHANGED <<utilVars, graphVars, chainLen, ibd, registered, tipChangeChan,
                   shutdownChan, shutdownPc, rankDir>>

\* lines 117-150: one iteration of the catch-up loop; when it breaks,
\* rankGraph is called
TaskCatchUp ==
    /\ pc = "catchup"
    /\ \E idErr \in BOOLEAN, blockErr \in BOOLEAN :
          IF idErr
          THEN /\ pc' = "fatal"
               /\ calls' = Append(calls, FailedRead("GetBlockIDForHeight"))
               /\ UNCHANGED <<indexVars, height, rankTodo>>
          ELSE IF height > chainLen
          THEN /\ height' = height - 1
               /\ pc' = "rankCatchUp"
               /\ rankTodo' = DOMAIN dirGraphs
               /\ calls' = Append(calls, RankCall)
               /\ UNCHANGED indexVars
          ELSE IF blockErr
          THEN /\ pc' = "fatal"
               /\ calls' = Append(calls, FailedRead("GetBlock"))
               /\ UNCHANGED <<indexVars, height, rankTodo>>
          ELSE /\ IndexTransactionsOf(height, TRUE)
               /\ calls' = Append(calls, IndexCall(height, TRUE))
               /\ height' = height + 1
               /\ UNCHANGED <<pc, rankTodo>>
    /\ UNCHANGED <<utilVars, graphVars, chainLen, ibd, registered, tipChangeChan,
                   shutdownChan, shutdownPc, rankDir>>

InRankGraph == pc \in {"rankCatchUp", "rankTip"}

\* lines 412-413: the loop of rankGraph comes to a graph and calls Rank,
\* lines 200-217
TaskRankCall ==
    /\ InRankGraph
    /\ rankPc = "idle"
    /\ \E d \in rankTodo :
          /\ rankDir' = d
          /\ dirGraphs' = [dirGraphs EXCEPT ![d] = RankStart(@)]
    /\ delta' = ROne
    /\ rankNodes' = NoMap
    /\ rankPc' = "loop"
    /\ UNCHANGED <<utilVars, graph, nLinks, directories, dirBalances, keyState, latestHeight,
                   last, nBlocks, pc, height, chainLen, ibd, registered,
                   tipChangeChan, shutdownChan, shutdownPc, calls, rankTodo>>

\* one iteration of the loop of Rank: lines 219-248
TaskRankIterate ==
    /\ InRankGraph
    /\ rankPc = "loop"
    /\ ~Converged(delta)
    /\ RankInRange(dirGraphs[rankDir])
    /\ LET after == RankPass(dirGraphs[rankDir])
       IN  /\ dirGraphs' = [dirGraphs EXCEPT ![rankDir] = after]
           /\ delta' = RankDelta(dirGraphs[rankDir], after)
    /\ rankNodes' = Rankings(dirGraphs[rankDir])
    /\ UNCHANGED <<utilVars, graph, nLinks, rankPc, directories, dirBalances, keyState,
                   latestHeight, last, nBlocks, runVars>>

\* the loop condition of Rank fails and Rank returns
TaskRankReturn ==
    /\ InRankGraph
    /\ rankPc = "loop"
    /\ Converged(delta)
    /\ rankPc' = "idle"
    /\ delta' = ROne
    /\ rankNodes' = NoMap
    /\ rankTodo' = rankTodo \ {rankDir}
    /\ rankDir' = Nil
    /\ UNCHANGED <<utilVars, graph, nLinks, indexVars, pc, height, chainLen, ibd, registered,
                   tipChangeChan, shutdownChan, shutdownPc, calls>>

\* lines 416-417: rankGraph has ranked every graph and returns
TaskRankDone ==
    /\ InRankGraph
    /\ rankPc = "idle"
    /\ rankTodo = {}
    /\ pc' = IF pc = "rankCatchUp" THEN "register" ELSE "select"
    /\ UNCHANGED <<utilVars, graphVars, indexVars, height, chainLen, ibd, registered,
                   tipChangeChan, shutdownChan, shutdownPc, calls, rankTodo, rankDir>>

\* lines 152-155
TaskRegister ==
    /\ pc = "register"
    /\ tipChangeChan' = <<>>
    /\ registered' = TRUE
    /\ pc' = "select"
    /\ UNCHANGED <<utilVars, graphVars, indexVars, height, chainLen, ibd, shutdownChan,
                   shutdownPc, calls, rankTodo, rankDir>>

\* TaskSelectTip with rankGraph called after every tip, whatever tip.More is
TaskSelectTipAlwaysRank ==
    /\ pc = "select"
    /\ tipChangeChan # <<>>
    /\ LET tip == Head(tipChangeChan)
       IN  /\ IndexTransactionsOf(tip.height, tip.Connect)
           /\ calls' = Append(Append(calls, IndexCall(tip.height, tip.Connect)),
                              RankCall)
           /\ pc' = "rankTip"
           /\ rankTodo' = DOMAIN dirGraphs'
    /\ tipChangeChan' = Tail(tipChangeChan)
    /\ UNCHANGED <<utilVars, graphVars, height, chainLen, ibd, registered, shutdownChan,
                   shutdownPc, rankDir>>

\* lines 159-164: a tip is received, and rankGraph is called when the tip
\* is the last of its burst
TaskSelectTip ==
    /\ pc = "select"
    /\ tipChangeChan # <<>>
    /\ LET tip == Head(tipChangeChan)
       IN  /\ IndexTransactionsOf(tip.height, tip.Connect)
           /\ IF tip.More
              THEN /\ calls' = Append(calls, IndexCall(tip.height, tip.Connect))
                   /\ UNCHANGED <<pc, rankTodo>>
              ELSE /\ calls' = Append(Append(calls, IndexCall(tip.height, tip.Connect)),
                                      RankCall)
                   /\ pc' = "rankTip"
                   /\ rankTodo' = DOMAIN dirGraphs'
    /\ tipChangeChan' = Tail(tipChangeChan)
    /\ UNCHANGED <<utilVars, graphVars, height, chainLen, ibd, registered, shutdownChan,
                   shutdownPc, rankDir>>

\* TaskSelectShutdown without the deferred call of line 155
TaskSelectShutdownNoDefer ==
    /\ pc = "select"
    /\ shutdownChan = "closed"
    /\ pc' = "stopped"
    /\ UNCHANGED <<utilVars, graphVars, indexVars, height, chainLen, ibd, registered,
                   tipChangeChan, shutdownChan, shutdownPc, calls, rankTodo, rankDir>>

\* lines 165-169, and the deferred UnregisterForTipChange of line 155
TaskSelectShutdown ==
    /\ pc = "select"
    /\ shutdownChan = "closed"
    /\ registered' = FALSE
    /\ pc' = "stopped"
    /\ UNCHANGED <<utilVars, graphVars, indexVars, height, chainLen, ibd, tipChangeChan,
                   shutdownChan, shutdownPc, calls, rankTodo, rankDir>>

\* Shutdown is called, once and after Run: line 421
Shutdown ==
    /\ pc \notin {"new", "panic"}
    /\ shutdownPc = "idle"
    /\ shutdownChan' = "closed"
    /\ shutdownPc' = "waiting"
    /\ UNCHANGED <<utilVars, graphVars, indexVars, pc, height, chainLen, ibd, registered,
                   tipChangeChan, calls, rankTodo, rankDir>>

\* lines 422-424: wg.Wait returns once run has returned
ShutdownReturn ==
    /\ shutdownPc = "waiting"
    /\ pc \in Returned
    /\ shutdownPc' = "returned"
    /\ UNCHANGED <<utilVars, graphVars, indexVars, pc, height, chainLen, ibd, registered,
                   tipChangeChan, shutdownChan, calls, rankTodo, rankDir>>

\* the processor connects the next block of the main chain and sends the tip
\* to the channel registered
ProcessorConnect ==
    /\ pc # "panic"
    /\ chainLen < MaxChain
    /\ chainLen' = chainLen + 1
    /\ IF registered
       THEN /\ Len(tipChangeChan) < TipChanCap
            /\ \E more \in BOOLEAN :
                  tipChangeChan' = Append(tipChangeChan,
                      [height |-> chainLen + 1, Connect |-> TRUE, More |-> more])
       ELSE UNCHANGED tipChangeChan
    /\ UNCHANGED <<utilVars, graphVars, indexVars, pc, height, ibd, registered,
                   shutdownChan, shutdownPc, calls, rankTodo, rankDir>>

\* the ledger reaches the tip of its peers
LedgerSynced ==
    /\ pc # "panic"
    /\ ibd
    /\ ibd' = FALSE
    /\ UNCHANGED <<utilVars, graphVars, indexVars, pc, height, chainLen, registered,
                   tipChangeChan, shutdownChan, shutdownPc, calls, rankTodo, rankDir>>

RunNext ==
    \/ Run
    \/ TaskStart
    \/ TaskIbdTick
    \/ TaskIbdShutdown
    \/ TaskHeader
    \/ TaskCatchUp
    \/ TaskRankCall
    \/ TaskRankIterate
    \/ TaskRankReturn
    \/ TaskRankDone
    \/ TaskRegister
    \/ TaskSelectTip
    \/ TaskSelectShutdown
    \/ Shutdown
    \/ ShutdownReturn
    \/ ProcessorConnect
    \/ LedgerSynced

RunSpec == RunInit /\ [][RunNext]_vars

(***************************************************************************)
(* Properties of the graph on its own.                                     *)
(***************************************************************************)
EdgeWeights(g, i) == [t \in DOMAIN Row(g, i) |-> Row(g, i)[t].weight]

OutboundConsistent(g) ==
    \A i \in DOMAIN g.nodes :
        g.nodes[i].outbound = Sum(EdgeWeights(g, i), DOMAIN Row(g, i))

\* C5: after any sequence of Link calls, the outbound of every node is the
\* sum of the weights of the edges leaving it.
C5_GraphConsistency == OutboundConsistent(graph)

\* a self-referential edge that repeated Link calls brought to weight 2
C5_Witness ==
    \E i \in DOMAIN graph.edges :
        /\ i \in DOMAIN graph.edges[i]
        /\ graph.edges[i][i].weight = 2
        /\ graph.nodes[i].outbound = 2

\* C11: while Rank runs on a graph of N > 0 nodes, after the uniform
\* initialisation and after every pass, the rankings of all nodes sum to 1.
C11_RankingsSumToOne ==
    (rankPc = "loop" /\ DOMAIN graph.nodes # {})
        => RSum(Rankings(graph), DOMAIN graph.nodes) = ROne

\* a pass has run on a graph with a node of no outbound weight, and has left
\* rankings that differ from one another
C11_Witness ==
    /\ rankPc = "loop"
    /\ rankNodes # NoMap
    /\ \E i \in DOMAIN graph.nodes :
          graph.nodes[i].outbound = 0 /\ rankNodes[i].n > 0
    /\ \E i \in DOMAIN graph.nodes, j \in DOMAIN graph.nodes :
          graph.nodes[i].ranking # graph.nodes[j].ranking

\* C10: the loop of Rank reaches delta <= epsilon after finitely many passes.
\* A pass is a function of the rankings alone, so a loop that terminates never
\* comes back, with delta still above epsilon, to the rankings it had one
\* pass earlier (the local map nodes).
C10_RankTerminates ==
    [][(rankPc = "loop" /\ rankPc' = "loop" /\ ~Converged(delta'))
          => Rankings(graph') # rankNodes]_vars

(***************************************************************************)
(* Properties of the indexer.                                              *)
(***************************************************************************)
\* C1: in every directory every balance is at least 0 after every
\* transaction.
C1_BalanceNonNegative ==
    \A d \in DOMAIN dirBalances :
        \A k \in DOMAIN dirBalances[d] : dirBalances[d][k] >= 0

\* the nodes of g other than the root sink PadTo44("0")
RealNodes(g) == {i \in DOMAIN g.nodes : g.nodes[i].pubkey # Root}

RECURSIVE Closure(_, _, _)
\* set with every node of allowed that edges lead to from it
Closure(g, set, allowed) ==
    LET next == set \cup {t \in allowed : \E f \in set : t \in DOMAIN Row(g, f)}
    IN  IF next = set THEN set ELSE Closure(g, next, allowed)

\* the nodes of allowed reached from i by one or more edges through allowed
ReachableFrom(g, i, allowed) ==
    Closure(g, {t \in allowed : t \in DOMAIN Row(g, i)}, allowed)

HasRealCycle(g) == \E i \in RealNodes(g) : i \in ReachableFrom(g, i, RealNodes(g))

\* C2: no directory graph has a directed cycle, self-loops included, through
\* nodes other than the root sink.
C2_NoRealCycle == \A d \in DOMAIN dirGraphs : ~HasRealCycle(dirGraphs[d])

\* C3: in every non-empty directory graph, index 0 is the root sink
\* PadTo44("0") and no other identifier.
C3_IndexZeroIsRoot ==
    \A d \in DOMAIN dirGraphs :
        dirGraphs[d].index # NoMap =>
            \A id \in DOMAIN dirGraphs[d].index :
                dirGraphs[d].index[id] = 0 <=> id = Root

\* graph h holds every index entry, node and edge of g, no edge lighter
GraphGrows(g, h) ==
    /\ \A id \in DOMAIN g.index : id \in DOMAIN h.index /\ h.index[id] = g.index[id]
    /\ DOMAIN g.nodes \subseteq DOMAIN h.nodes
    /\ \A s \in DOMAIN g.edges :
          \A t \in DOMAIN g.edges[s] :
             /\ t \in DOMAIN Row(h, s)
             /\ h.edges[s][t].weight >= g.edges[s][t].weight

\* C6: a directory, once it exists, keeps existing; its graph loses no node,
\* index entry or edge, no edge weight decreases, and its balance table is
\* never reset to empty.
C6_DirectoriesGrow ==
    [][\A d \in DOMAIN directories :
          /\ d \in DOMAIN directories'
          /\ GraphGrows(dirGraphs[d], dirGraphs'[d])
          /\ DOMAIN dirBalances[d] \subseteq DOMAIN dirBalances'[d]]_vars

\* a transaction that is a credit to the directory its memo names
IsCredit(idx, txn) ==
    /\ ~isLabelling(pubKeyToString(txn.To)).ok
    /\ Trim(txn.Memo, {"/"}) \in DOMAIN idx.directories

\* C7 as claimed: when a credit from A to B was accepted (in a connected
\* block) with a zero balance of A, so linked root -> B, the credit from B to
\* A that follows in the same directory is rejected and changes nothing.
C7_ReverseOfRootCreditRejected ==
    [][(/\ last.branch = "creditRoot"
        /\ last.increment /\ last'.increment
        /\ last.txn.From # last.txn.To
        /\ Balance(dirBalances[Trim(last.txn.Memo, {"/"})], last.txn.From) = 0
        /\ last'.txn.From = last.txn.To
        /\ last'.txn.To = last.txn.From
        /\ last'.txn.Memo = last.txn.Memo)
          => /\ last'.branch = "cycle"
             /\ UNCHANGED <<dirGraphs, dirBalances>>]_vars

\* C7 amended: while the graph of directory X holds the edge A -> B (as a
\* credit from A to B accepted with a positive balance of A leaves it) and
\* neither A nor B has index 0, a credit from B to A with memo /X/ is rejected
\* and changes neither the balances nor the graph.
C7_ReverseOfLinkedCreditRejected ==
    \A t \in 1..Len(Transactions), blockHeight \in Heights, increment \in BOOLEAN :
        LET txn == Transactions[t]
            X == Trim(txn.Memo, {"/"})
            g == dirGraphs[X]
            A == txn.To
            B == txn.From
        IN  (/\ IsCredit(Indexer, txn)
             /\ A \in DOMAIN g.index /\ B \in DOMAIN g.index
             /\ g.index[A] # 0 /\ g.index[B] # 0
             /\ g.index[B] \in DOMAIN Row(g, g.index[A]))
              => IndexTransaction(Indexer, txn, blockHeight, increment, Nil)
                     = [idx |-> Indexer, outcome |-> "cycle"]

\* a credit from B to A was just rejected under the edge A -> B
C7_Witness ==
    /\ last.branch = "cycle"
    /\ last.txn.From = KeyB /\ last.txn.To = KeyA
    /\ LET g == dirGraphs[DirectoryID]
       IN  /\ g.index[Root] = 0
           /\ g.index[KeyB] \in DOMAIN Row(g, g.index[KeyA])

SkipBranches == {"cycle", "insufficient", "nodirectory"}

\* C8: a transaction skipped for a cycle, for an insufficient balance or for
\* naming no directory leaves directories, graphs, balances and keyState as
\* they were.
C8_SkipMutatesNothing ==
    [][last'.branch \in SkipBranches
          => UNCHANGED <<directories, dirGraphs, dirBalances, keyState>>]_vars

\* a path insertion was just skipped for its sender's balance, in a directory
\* that holds a graph and balances
C8_Witness ==
    /\ last.branch = "insufficient"
    /\ DirectoryID \in DOMAIN directories
    /\ dirGraphs[DirectoryID] # NewGraph
    /\ dirBalances[DirectoryID] # NoMap

(***************************************************************************)
(* Properties of the indexer task.                                         *)
(***************************************************************************)
Indexed(h) == \E i \in DOMAIN calls : calls[i] = IndexCall(h, TRUE)

\* C4: no block is skipped.  Each block of the main chain from the start
\* height on is passed to indexTransactions, by the catch-up loop or by a tip:
\* once the task waits in its select with nothing left in tipChangeChan, every
\* block the processor has connected has been indexed, the blocks connected
\* while rankGraph ran before RegisterForTipChange among them.
C4_NoBlockSkipped ==
    (pc = "select" /\ tipChangeChan = <<>>)
        => \A h \in StartHeight..chainLen : Indexed(h)

\* C9: once Shutdown is called, in whatever phase the task is, the task
\* returns and Shutdown returns, and the task that has returned indexes
\* nothing more.  A pass of Rank is a function of the rankings alone, so the
\* task that is to return is never, while Shutdown waits, back at the rankings
\* it had one pass earlier with delta still above epsilon.
C9_ShutdownLiveness ==
    /\ [][(/\ shutdownPc = "waiting"
           /\ rankPc = "loop" /\ rankPc' = "loop"
           /\ ~Converged(delta'))
             => Rankings(dirGraphs'[rankDir]) # rankNodes]_vars
    /\ [][(pc \in Returned) => (calls' = calls)]_vars

\* C12: whenever the task has returned, its tip-change channel is not
\* registered with the processor; the channel is registered only after the
\* rankGraph call that ends the catch-up and while the task has not returned.
C12_RegistrationReleased ==
    /\ pc \in Returned => ~registered
    /\ registered => /\ pc \in {"select", "rankTip"}
                     /\ \E i \in DOMAIN calls : calls[i] = RankCall

\* the task registered its channel, read the closed shutdownChan in its
\* select and returned
C12_Witness ==
    /\ pc = "stopped"
    /\ \E i \in DOMAIN calls : calls[i] = RankCall
    /\ ~registered

StartupReads == {FailedRead("GetBlockHeader"), FailedRead("GetBranchType")}
CatchUpReads == {FailedRead("GetBlockIDForHeight"), FailedRead("GetBlock")}

\* C13: when GetBlockHeader gives an error or no header, or GetBranchType an
\* error or a branch other than MAIN, the task returns having indexed nothing,
\* called rankGraph never and registered for no tip; when GetBlockIDForHeight or
\* GetBlock fails in the catch-up, the task returns without a rankGraph call
\* and unregistered.
C13_FatalStartup ==
    \A i \in DOMAIN calls :
        /\ calls[i] \in StartupReads =>
              /\ pc = "fatal"
              /\ calls = <<calls[i]>>
              /\ nBlocks = 0 /\ directories = NoMap /\ keyState = NoMap
              /\ ~registered
        /\ calls[i] \in CatchUpReads =>
              /\ pc = "fatal"
              /\ \A j \in DOMAIN calls : calls[j] # RankCall
              /\ ~registered

\* GetBlock failed on the second block of the catch-up, after the first was
\* indexed
C13_Witness ==
    /\ pc = "fatal"
    /\ calls = <<IndexCall(StartHeight, TRUE), FailedRead("GetBlock")>>
    /\ directories # NoMap

(***************************************************************************)
(* Properties of one transaction.                                          *)
(***************************************************************************)
\* the weight of the edge from identifier src to identifier tgt in g, 0 when
\* g has no such edge
WeightOf(g, src, tgt) ==
    IF /\ src \in DOMAIN g.index /\ tgt \in DOMAIN g.index
       /\ g.index[tgt] \in DOMAIN Row(g, g.index[src])
    THEN g.edges[g.index[src]][g.index[tgt]].weight
    ELSE 0

\* C14: in an existing directory X, a connected transaction from A to B,
\* A # B, with memo /X/, not rejected as a cycle, with a balance of A of 0,
\* adds the amount to the balance of B, leaves the balance of A as it is, adds
\* the amount to the weight of the edge root -> B and changes no other edge.
C14_DirectCredit ==
    \A t \in 1..Len(Transactions), blockHeight \in Heights :
        LET txn == Transactions[t]
            X == Trim(txn.Memo, {"/"})
            A == pubKeyToString(txn.From)
            B == pubKeyToString(txn.To)
            r == IndexTransaction(Indexer, txn, blockHeight, TRUE, Nil)
            g == dirGraphs[X]
            h == r.idx.dirGraphs[X]
        IN  (/\ IsCredit(Indexer, txn)
             /\ A # B
             /\ r.outcome # "cycle"
             /\ Balance(dirBalances[X], A) = 0)
              => /\ Balance(r.idx.dirBalances[X], B)
                        = Balance(dirBalances[X], B) + txn.Amount
                 /\ Balance(r.idx.dirBalances[X], A) = Balance(dirBalances[X], A)
                 /\ \A src \in DOMAIN h.index, tgt \in DOMAIN h.index :
                       WeightOf(h, src, tgt) =
                           IF src = Root /\ tgt = B
                           THEN WeightOf(g, src, tgt) + txn.Amount
                           ELSE WeightOf(g, src, tgt)

\* a second credit from A, whose balance is 0, to B has brought the edge
\* root -> B to the weight 5
C14_Witness ==
    /\ last.branch = "creditRoot"
    /\ last.increment
    /\ last.txn.From = KeyA /\ last.txn.To = KeyB /\ last.txn.Amount = 4
    /\ Balance(dirBalances[DirectoryID], KeyA) = 0
    /\ WeightOf(dirGraphs[DirectoryID], Root, KeyB) = 5

(***************************************************************************)
(* The path insertion of docs/intro/+ at time 0.                           *)
(***************************************************************************)
\* the Link calls of the four dimensions as <<src, tgt>>, the spatial chain
\* running over the identifiers spatial
DocsSynthetic(spatial, blockHeight) ==
    LET orders == DiminishingOrders(blockHeight)
        DAY == <<"1", "9", "7", "0", "+", "0", "1", "+", "0", "1">>
        MONTH == <<"1", "9", "7", "0", "+", "0", "1">>
        YEAR == <<"1", "9", "7", "0">>
        revisionNode == <<"+", "1">>
    IN  << <<DocsPathKey, DAY>>, <<DAY, MONTH>>, <<MONTH, YEAR>>, <<YEAR, <<"0">>>>,
           <<DocsPathKey, revisionNode>>, <<revisionNode, <<"0">>>>,
           <<DocsPathKey, spatial[1]>>, <<spatial[1], spatial[2]>>,
           <<spatial[2], <<"0">>>>,
           <<DocsPathKey, Itoa(blockHeight)>> >>
        \o [j \in 1..(Len(orders) - 1) |-> <<Itoa(orders[j]), Itoa(orders[j + 1])>>]

\* the directory "docs" exists and holds a balance of 100 for A
DocsFunded ==
    /\ DocsID \in DOMAIN directories
    /\ Balance(dirBalances[DocsID], KeyA) = 100

\* the edges of the directory graph whose weight the connected DocsPath at
\* blockHeight raises by 25
DocsGained(blockHeight) ==
    LET r == IndexTransaction(Indexer, DocsPath, blockHeight, TRUE, DocsID)
        g == dirGraphs[DocsID]
        h == r.idx.dirGraphs[DocsID]
    IN  {e \in (DOMAIN h.index) \X (DOMAIN h.index) :
            WeightOf(h, e[1], e[2]) = WeightOf(g, e[1], e[2]) + 25}

\* the connected DocsPath at blockHeight takes the balance of A to 0, adds
\* 100 to the edge A -> docs/intro/+ and 25 to the edge of every Link call of
\* DocsSynthetic(spatial, blockHeight), and changes no other edge
DocsPathInserted(spatial, blockHeight) ==
    LET r == IndexTransaction(Indexer, DocsPath, blockHeight, TRUE, DocsID)
        g == dirGraphs[DocsID]
        h == r.idx.dirGraphs[DocsID]
        links == DocsSynthetic(spatial, blockHeight)
        Calls(src, tgt) ==
            Cardinality({i \in DOMAIN links :
                            pad44(links[i][1]) = src /\ pad44(links[i][2]) = tgt})
    IN  /\ r.outcome = "path"
        /\ Balance(r.idx.dirBalances[DocsID], KeyA) = 0
        /\ \A i \in DOMAIN links :
              {pad44(links[i][1]), pad44(links[i][2])} \subseteq DOMAIN h.index
        /\ \A src \in DOMAIN h.index, tgt \in DOMAIN h.index :
              WeightOf(h, src, tgt) =
                  WeightOf(g, src, tgt) + 25 * Calls(src, tgt)
                  + (IF src = KeyA /\ tgt = DocsPathKey THEN 100 ELSE 0)

\* C15 as claimed: with a balance of 100 of A in the directory "docs", the
\* connected transaction from A to docs/intro/+ with amount 100 adds 100 to
\* the edge A -> docs/intro/+, takes the balance of A to 0 and adds 25 to at
\* least 13 synthetic edges: the temporal, the revision and the periodic
\* chain, and the spatial chain over the reversed list ["docs", "intro/+"].
C15_ThirteenEdgesOverIntroPlus ==
    \A blockHeight \in DocsHeights :
        DocsFunded =>
            /\ DocsPathInserted(<<<<"i", "n", "t", "r", "o", "/", "+">>, <<"d", "o", "c", "s">>>>, blockHeight)
            /\ Cardinality(DocsGained(blockHeight)) >= 13

\* C15, amended: with a balance of 100 of A in the directory "docs", the
\* connected transaction from A to docs/intro/+ with amount 100 at time 0
\* adds 100 to the edge A -> docs/intro/+, takes the balance of A to 0 and
\* adds 25 to each synthetic edge and to nothing else: the temporal chain,
\* the revision chain through "+1", the spatial chain over the reversed list
\* ["docs", "intro"] and the periodic chain through DiminishingOrders(height),
\* which are 10 edges and one more for each value of DiminishingOrders(height)
\* after the first.
C15_PathInsertion ==
    \A blockHeight \in DocsHeights :
        DocsFunded =>
            /\ DocsPathInserted(<<<<"i", "n", "t", "r", "o">>, <<"d", "o", "c", "s">>>>, blockHeight)
            /\ Cardinality(DocsGained(blockHeight))
                   = 10 + (Len(DiminishingOrders(blockHeight)) - 1)

\* the path docs/intro/+ was inserted with amount 100 in a connected block at
\* height 7, on a balance of 100 of A
C15_Witness ==
    /\ last.txn = DocsPath /\ last.branch = "path" /\ last.increment
    /\ latestHeight = 7
    /\ Balance(dirBalances[DocsID], KeyA) = 0
    /\ WeightOf(dirGraphs[DocsID], KeyA, DocsPathKey) = 100
    /\ WeightOf(dirGraphs[DocsID], DocsPathKey, pad44(<<"i", "n", "t", "r", "o">>)) = 25

(***************************************************************************)
(* The labelling branch under DocsSpec.                                    *)
(***************************************************************************)
\* the label the key of a directory transaction of DocsSpec spells
DocsLabelOf(txn) ==
    IF txn.To = DocsLabelKey THEN <<"d", "o", "c", "s">> ELSE <<"m", "y", " ", "d", "o", "c", "s">>

\* C16: a transaction without a sender to a labelling key //L// creates,
\* whatever its memo and amount, a directory under the transaction id with
\* the label L ('+' read as a space), a graph without nodes and edges and an
\* empty balance table, and changes no other directory, no keyState entry and
\* no graph that existed.
C16_DirectoryCreation ==
    [][(last'.txn.From = Nil /\ nBlocks' = nBlocks + 1) =>
          LET id == ID(last'.txn)
          IN  /\ last'.branch = "directory"
              /\ id \in DOMAIN directories'
              /\ directories'[id] = DocsLabelOf(last'.txn)
              /\ dirGraphs'[id].index = NoMap /\ dirGraphs'[id].nodes = NoMap
              /\ dirGraphs'[id].edges = NoMap
              /\ dirBalances'[id] = NoMap
              /\ DOMAIN directories' = DOMAIN directories \cup {id}
              /\ \A d \in DOMAIN directories \ {id} :
                    /\ directories'[d] = directories[d]
                    /\ dirBalances'[d] = dirBalances[d]
              /\ keyState' = keyState
              /\ \A d \in DOMAIN dirGraphs : dirGraphs'[d] = dirGraphs[d]]_vars

\* C17: a transaction from a sender A to a labelling key //L// sets the label
\* of keyState[A] to L and its memo to the memo without the white space around
\* it, and leaves every directory, directory graph and balance table as it
\* was, also when the memo names a directory that exists.
C17_MemoOnSender ==
    [][(/\ last'.txn.From # Nil
        /\ last'.txn.To \in {DocsLabelKey, SpacedLabelKey}
        /\ nBlocks' = nBlocks + 1) =>
          LET A == last'.txn.From
          IN  /\ last'.branch = "label"
              /\ A \in DOMAIN keyState'
              /\ keyState'[A].label = DocsLabelOf(last'.txn)
              /\ keyState'[A].memo = <<"/", "0", "a", "/">>
              /\ directories' = directories
              /\ dirGraphs' = dirGraphs
              /\ dirBalances' = dirBalances]_vars

\* B has labelled itself "my docs" with the memo "/0a/" while the directory 0a
\* existed and held a balance for A
C17_Witness ==
    /\ last.txn = DocsLabelByMemo /\ last.branch = "label"
    /\ DocsID \in DOMAIN directories
    /\ Balance(dirBalances[DocsID], KeyA) = 100
    /\ keyState[KeyB].label = <<"m", "y", " ", "d", "o", "c", "s">>
    /\ keyState[KeyB].memo = DocsMemo

\* C18: when the same path insertion (same key, same block height, same
\* time) is applied a second time with a sufficient balance of the sender,
\* the second application adds no node and no edge to the directory graph:
\* it only raises edge weights and outbound sums.
C18_SecondInsertionKeepsTopology ==
    [][(/\ last.branch = "path" /\ last'.branch = "path"
        /\ last'.txn = last.txn
        /\ latestHeight' = latestHeight
        /\ nBlocks' = nBlocks + 1) =>
          LET g == dirGraphs[DocsID]
              h == dirGraphs'[DocsID]
          IN  /\ h.index = g.index
              /\ DOMAIN h.nodes = DOMAIN g.nodes
              /\ \A n \in DOMAIN g.nodes :
                    /\ h.nodes[n].outbound >= g.nodes[n].outbound
                    /\ [h.nodes[n] EXCEPT !.outbound = 0]
                           = [g.nodes[n] EXCEPT !.outbound = 0]
              /\ DOMAIN h.edges = DOMAIN g.edges
              /\ \A src \in DOMAIN g.edges :
                    /\ DOMAIN h.edges[src] = DOMAIN g.edges[src]
                    /\ \A tgt \in DOMAIN g.edges[src] :
                          /\ h.edges[src][tgt].weight >= g.edges[src][tgt].weight
                          /\ [h.edges[src][tgt] EXCEPT !.weight = 0]
                                 = [g.edges[src][tgt] EXCEPT !.weight = 0]]_vars

\* the path docs/intro/+ was inserted twice with amount 8 in connected blocks
\* at height 7
C18_Witness ==
    /\ last.txn = DocsPathAgain /\ last.branch = "path" /\ last.increment
    /\ latestHeight = 7
    /\ pad44(<<"1", "2", "3", "4">>) \notin DOMAIN dirGraphs[DocsID].index
    /\ WeightOf(dirGraphs[DocsID], KeyA, DocsPathKey) = 16
    /\ WeightOf(dirGraphs[DocsID], DocsPathKey, pad44(<<"i", "n", "t", "r", "o">>)) = 4

(***************************************************************************)
(* DiminishingOrders.                                                      *)
(***************************************************************************)
\* the k of 10^k <= m < 10^(k+1), for m > 0
TopPower(m) == CHOOSE k \in 0..18 : Pow10(k) <= m /\ m < Pow10(k + 1)

\* d_k * 10^k, for m > 0
LeadingPart(m) == (m \div Pow10(TopPower(m))) * Pow10(TopPower(m))

StrictlyDecreasing(s) == \A i \in 1..(Len(s) - 1) : s[i] > s[i + 1]

\* C19 as claimed: for n > 0 DiminishingOrders(n) is a strictly decreasing
\* list of exactly k + 1 values that starts with n, goes on through the
\* values n - (n mod 10^i) and ends with d_k * 10^k; DiminishingOrders(0) is
\* [0].
C19_EndsAtLeadingPart ==
    orderResults # <<>> =>
        IF orderArg = 0
        THEN orderResults = <<0>>
        ELSE /\ Len(orderResults) = TopPower(orderArg) + 1
             /\ StrictlyDecreasing(orderResults)
             /\ orderResults[1] = orderArg
             /\ \A i \in DOMAIN orderResults :
                   \E j \in 0..TopPower(orderArg) :
                       orderResults[i] = orderArg - (orderArg % Pow10(j))
             /\ orderResults[Len(orderResults)] = LeadingPart(orderArg)

\* C19, amended: for n > 0 DiminishingOrders(n) is the strictly decreasing
\* list of the distinct values n - (n mod 10^i), i = 0 .. k + 1: it starts
\* with n, ends with 0 after d_k * 10^k, and has between 2 and k + 2 values;
\* DiminishingOrders(0) is [0].
C19_DiminishingOrders ==
    orderResults # <<>> =>
        IF orderArg = 0
        THEN orderResults = <<0>>
        ELSE /\ Len(orderResults) \in 2..(TopPower(orderArg) + 2)
             /\ StrictlyDecreasing(orderResults)
             /\ orderResults[1] = orderArg
             /\ {orderResults[i] : i \in DOMAIN orderResults}
                    = {orderArg - (orderArg % Pow10(j)) : j \in 0..(TopPower(orderArg) + 1)}
             /\ orderResults[Len(orderResults)] = 0
             /\ orderResults[Len(orderResults) - 1] = LeadingPart(orderArg)

\* DiminishingOrders(1204) has returned, a value left out as a repetition
C19_Witness ==
    /\ orderArg = 1204
    /\ orderResults = <<1204, 1200, 1000, 0>>

(***************************************************************************)
(* pad44.                                                                  *)
(***************************************************************************)
\* C20: for every input, of whatever length and with or without "/", pad44
\* returns a value, and pad44 of that value is that value.
C20_Pad44Idempotent ==
    /\ padPc # "panic"
    /\ padPc = "done" => repadded = paddedString

(***************************************************************************)
(* More properties of the graph on its own.                                *)
(***************************************************************************)
\* every end of an edge is the index of an identifier, every identifier has
\* the node of its index, with itself as pubkey, and the indices are 0..n-1,
\* one for each identifier
IndexWellFormed(g) ==
    /\ \A src \in DOMAIN g.edges : \A tgt \in DOMAIN g.edges[src] :
          \A end \in {src, tgt} : \E id \in DOMAIN g.index : g.index[id] = end
    /\ \A id \in DOMAIN g.index :
          /\ g.index[id] \in DOMAIN g.nodes
          /\ g.nodes[g.index[id]].pubkey = id
    /\ {g.index[id] : id \in DOMAIN g.index} = 0..(Cardinality(DOMAIN g.index) - 1)
    /\ \A id1 \in DOMAIN g.index, id2 \in DOMAIN g.index :
          g.index[id1] = g.index[id2] => id1 = id2

\* C21: after any sequence of Link calls every identifier at an end of an
\* edge is in index and has a node with that pubkey, the index values are
\* exactly 0..n-1 without repetition, and no later Link call changes the
\* index of an identifier.
C21_IndexWellFormed ==
    [][/\ IndexWellFormed(graph')
       /\ \A id \in DOMAIN graph.index :
             id \in DOMAIN graph'.index /\ graph'.index[id] = graph.index[id]]_vars

\* three Link calls have given indices to three identifiers, the root last
C21_Witness ==
    /\ nLinks = 3
    /\ DOMAIN graph.index = {Root, KeyA, KeyB}
    /\ graph.index[Root] = 2
    /\ \E src \in DOMAIN graph.edges : 2 \in DOMAIN graph.edges[src]

(***************************************************************************)
(* Two indexers fed the same blocks.                                       *)
(***************************************************************************)
\* C22: two indexers fed the same sequence of (block, connect) events end
\* with the same directories, graphs, balance tables and keyState, also when
\* two directories carry the same label and a path insertion names it: from
\* the same state the same event leaves the same indexer, whichever directory
\* the range loop over idx.directories selects.
C22_SameEventsSameState ==
    \A t \in 1..Len(TwinTransactions), blockHeight \in DocsHeights, increment \in BOOLEAN :
        LET txn == TwinTransactions[t]
            choices == DirectoryChoices(Indexer,
                           inflateNodes(pubKeyToString(txn.To)).rootdir)
        IN  \A pick1 \in choices, pick2 \in choices :
                IndexTransaction(Indexer, txn, blockHeight, increment, pick1).idx
                    = IndexTransaction(Indexer, txn, blockHeight, increment, pick2).idx

\* the edges of g as a set of <<source index, target index>>
EdgeSet(g) == {e \in (DOMAIN g.edges) \X (DOMAIN g.nodes) : e[2] \in DOMAIN g.edges[e[1]]}

\* outbound of the node i of g, 0 when g has no such node
OutboundOf(g, i) == IF i \in DOMAIN g.nodes THEN g.nodes[i].outbound ELSE 0

\* C23: Link(src, tgt, w, height, time) keeps one edge for the pair: it adds
\* w to its weight (w alone when the edge is new), sets its height and time
\* to those of the call whatever they were, adds w to the outbound of src
\* only, and changes no other edge, no other outbound, no ranking and no
\* index assignment.
C23_LinkFrame ==
    \A src \in LinkIds, tgt \in LinkIds, w \in LinkWeights, h \in LinkHeights :
        LET g == Link(graph, src, tgt, w, h, 10 * h)
            s == g.index[pad44(src)]
            t == g.index[pad44(tgt)]
        IN  /\ pad44(src) \in DOMAIN g.index /\ pad44(tgt) \in DOMAIN g.index
            /\ EdgeSet(g) = EdgeSet(graph) \cup {<<s, t>>}
            /\ g.edges[s][t] =
                  [weight |-> (IF <<s, t>> \in EdgeSet(graph)
                               THEN graph.edges[s][t].weight ELSE 0) + w,
                   height |-> h, time |-> 10 * h]
            /\ \A e \in EdgeSet(graph) \ {<<s, t>>} :
                  g.edges[e[1]][e[2]] = graph.edges[e[1]][e[2]]
            /\ \A i \in DOMAIN g.nodes :
                  /\ g.nodes[i].outbound
                        = OutboundOf(graph, i) + (IF i = s THEN w ELSE 0)
                  /\ i \in DOMAIN graph.nodes =>
                        g.nodes[i].ranking = graph.nodes[i].ranking
            /\ \A id \in DOMAIN graph.index : g.index[id] = graph.index[id]

\* three Link calls of weight 1 have drawn the same edge, the last of them
\* at height 1
C23_Witness ==
    /\ nLinks = 3
    /\ \E e \in EdgeSet(graph) :
          /\ graph.edges[e[1]][e[2]] = [weight |-> 3, height |-> 1, time |-> 10]
          /\ graph.nodes[e[1]].outbound = 3

\* C24: IsParentDescendant(parent, descendant) is false when either
\* identifier is not in index or has index 0; otherwise it is true exactly
\* when descendant is reached from parent, itself included, along edges whose
\* targets are not index 0, whatever the weights; it returns on graphs with
\* cycles.
C24_IsParentDescendant ==
    \A parent \in DfsIds, descendant \in DfsIds :
        IsParentDescendant(graph, parent, descendant) =
            (/\ parent \in DOMAIN graph.index
             /\ descendant \in DOMAIN graph.index
             /\ graph.index[parent] # 0
             /\ graph.index[descendant] # 0
             /\ graph.index[descendant]
                   \in Closure(graph, {graph.index[parent]}, DOMAIN graph.nodes \ {0}))

\* B is a descendant of A through C, over an edge of weight 0, and A is no
\* descendant of B
C24_Witness ==
    /\ DOMAIN graph.index = DfsIds
    /\ graph.index[Root] = 0
    /\ WeightOf(graph, KeyA, KeyC) = 1
    /\ graph.index[KeyB] \in DOMAIN Row(graph, graph.index[KeyC])
    /\ WeightOf(graph, KeyC, KeyB) = 0
    /\ graph.index[KeyB] \notin DOMAIN Row(graph, graph.index[KeyA])
    /\ IsParentDescendant(graph, KeyA, KeyB)
    /\ ~IsParentDescendant(graph, KeyB, KeyA)

(***************************************************************************)
(* The order of the calls of the indexer task.                             *)
(***************************************************************************)
\* the places of the calls of rankGraph in the log cs
RankCalls(cs) == {i \in DOMAIN cs : cs[i] = RankCall}

\* C25: rankGraph is called once when the catch-up loop ends, before the
\* tip-change channel is registered; afterwards it is called after the
\* indexTransactions of a tip exactly when the tip's More is false, and at no
\* other time, so never between two tips of a burst.
C25_RankOnQuiescence ==
    [][/\ (registered' /\ ~registered) =>
             RankCalls(calls) = {Len(calls)}
       /\ (pc = "select" /\ calls' # calls) =>
             LET tip == Head(tipChangeChan)
             IN  calls' = Append(calls, IndexCall(tip.height, tip.Connect))
                          \o (IF tip.More THEN <<>> ELSE <<RankCall>>)
       /\ (pc # "select" /\ RankCalls(calls') # RankCalls(calls)) =>
             /\ pc = "catchup" /\ pc' = "rankCatchUp"
             /\ ~registered
             /\ calls' = Append(calls, RankCall)
             /\ RankCalls(calls) = {}]_vars

\* after the catch-up to height 1 and its rankGraph, a tip with More and a
\* tip without it were indexed, and rankGraph was called after the second
C25_Witness ==
    /\ registered
    /\ calls = <<IndexCall(1, TRUE), RankCall, IndexCall(2, TRUE),
                 IndexCall(3, TRUE), RankCall>>

\* the indexers that one transaction txn of a connected block at blockHeight
\* can leave of the indexers in set
AfterOne(set, txn, blockHeight) ==
    UNION {{IndexTransaction(idx, txn, blockHeight, TRUE, pick).idx :
              pick \in DirectoryChoices(idx, inflateNodes(pubKeyToString(txn.To)).rootdir)} :
           idx \in set}

\* the indexers that block, of one to three transactions, can leave of idx
\* when its transactions are taken first to last
InArrayOrder(idx, block, blockHeight) ==
    LET one == AfterOne({idx}, block[1], blockHeight)
        two == IF Len(block) >= 2 THEN AfterOne(one, block[2], blockHeight) ELSE one
    IN  IF Len(block) >= 3 THEN AfterOne(two, block[3], blockHeight) ELSE two

\* C26: nothing is indexed before IsInitialBlockDownload has answered false;
\* the catch-up loop calls indexTransactions with connect = true on the blocks
\* of the main chain at header.height, header.height + 1, ..., each height
\* once and none left out, and ends at the first height without a block id;
\* the transactions of a block are taken in array order.
C26_CatchUpOrder ==
    [][/\ (pc' = "header" /\ pc # "header") => ~ibd
       /\ pc \in {"new", "start", "ibdwait", "header"} => calls = <<>> /\ nBlocks' = 0
       /\ (pc = "catchup" /\ nBlocks' # nBlocks) =>
             LET h == StartHeight + Len(calls)
             IN  /\ \A i \in DOMAIN calls : calls[i] = IndexCall(StartHeight + i - 1, TRUE)
                 /\ calls' = Append(calls, IndexCall(h, TRUE))
                 /\ h <= chainLen
                 /\ latestHeight' = h
                 /\ Indexer' \in InArrayOrder(Indexer, BlockAt(h), h)
       /\ (pc = "catchup" /\ pc' = "rankCatchUp") =>
             /\ Len(calls) = chainLen - StartHeight + 1
             /\ \A i \in DOMAIN calls : calls[i] = IndexCall(StartHeight + i - 1, TRUE)]_vars

\* the catch-up loop has indexed the blocks at heights 1, 2 and 3 and has
\* ended at height 4
C26_Witness ==
    /\ pc = "rankCatchUp"
    /\ chainLen = 3
    /\ calls = <<IndexCall(1, TRUE), IndexCall(2, TRUE), IndexCall(3, TRUE), RankCall>>
    /\ nBlocks = 3

(***************************************************************************)
(* Disconnected blocks under DocsSpec.                                     *)
(***************************************************************************)
\* the balances, the edge weights and the outbound sums that the directory
\* graph g and the balance table b hold are the same in h and c
SameValues(g, b, h, c) ==
    /\ \A k \in DOMAIN b \cup DOMAIN c : Balance(c, k) = Balance(b, k)
    /\ \A src \in DOMAIN g.index, tgt \in DOMAIN g.index :
          g.index[tgt] \in DOMAIN Row(g, g.index[src]) =>
              /\ src \in DOMAIN h.index /\ tgt \in DOMAIN h.index
              /\ h.index[tgt] \in DOMAIN Row(h, h.index[src])
              /\ WeightOf(h, src, tgt) = WeightOf(g, src, tgt)
    /\ \A id \in DOMAIN g.index :
          /\ id \in DOMAIN h.index
          /\ h.nodes[h.index[id]].outbound = g.nodes[g.index[id]].outbound

\* C27: an indexTransactions call with connect == false changes no value:
\* whatever the block holds, a directory transaction without a sender
\* included, every balance table, every weight of an existing edge and every
\* outbound sum is after the call what it was before.
C27_DisconnectChangesNoValue ==
    [][(nBlocks' = nBlocks + 1 /\ ~last'.increment) =>
          \A d \in DOMAIN directories :
              /\ d \in DOMAIN directories'
              /\ SameValues(dirGraphs[d], dirBalances[d], dirGraphs'[d], dirBalances'[d])]_vars

(***************************************************************************)
(* The dimension chains of an accepted path insertion under Spec.          *)
(***************************************************************************)
\* the four chains of the keys d/a/+ and d/ at time 0 and at the heights 0
\* and 12, as the identifiers passed to Link
ChainsOf(txnTo, blockHeight) ==
    << <<txnTo, <<"1", "9", "7", "0", "+", "0", "1", "+", "0", "1">>, <<"1", "9", "7", "0", "+", "0", "1">>, <<"1", "9", "7", "0">>, <<"0">>>>,
       IF txnTo = PathKey THEN <<txnTo, <<"+", "1">>, <<"0">>>>
                          ELSE <<txnTo, <<"+", "0">>, <<"0">>>>,
       IF txnTo = PathKey THEN <<txnTo, <<"a">>, <<"d">>, <<"0">>>>
                          ELSE <<txnTo, <<"d">>, <<"0">>>>,
       IF blockHeight = 0 THEN <<txnTo, <<"0">>>>
                          ELSE <<txnTo, <<"1", "2">>, <<"1", "0">>, <<"0">>>> >>

\* chain is a path of edges of g that ends at the root sink
IsPathToRoot(g, chain) ==
    /\ \A i \in 1..(Len(chain) - 1) :
          /\ pad44(chain[i]) \in DOMAIN g.index
          /\ pad44(chain[i + 1]) \in DOMAIN g.index
          /\ g.index[pad44(chain[i + 1])] \in DOMAIN Row(g, g.index[pad44(chain[i])])
    /\ pad44(chain[Len(chain)]) = Root

\* C28: after an accepted path insertion at a height >= 0 the temporal, the
\* revision, the spatial and the periodic chain are each a path of edges from
\* txnTo to the root sink, and the target "0" of their last links is the node
\* of PadTo44("0") and no node of its own.
C28_ChainsEndAtRoot ==
    last.branch = "path" =>
        LET g == dirGraphs[DirectoryID]
            chains == ChainsOf(last.txn.To, latestHeight)
        IN  /\ \A c \in DOMAIN chains : IsPathToRoot(g, chains[c])
            /\ Root \in DOMAIN g.index
            /\ <<"0">> \notin DOMAIN g.index

\* the path d/a/+ was inserted at height 12, and the periodic chain has come
\* to the root sink from the node 10
C28_Witness ==
    /\ last.branch = "path" /\ last.txn.To = PathKey /\ latestHeight = 12
    /\ LET g == dirGraphs[DirectoryID]
       IN  /\ pad44(<<"1", "0">>) \in DOMAIN g.index
           /\ g.index[Root] \in DOMAIN Row(g, g.index[pad44(<<"1", "0">>)])

(***************************************************************************)
(* The revision folding of inflateNodes.                                   *)
(***************************************************************************)
RECURSIVE LeadingPluses(_)
\* the maximal leading run of '+' characters of s
LeadingPluses(s) ==
    IF s # <<>> /\ s[1] = "+" THEN <<"+">> \o LeadingPluses(Tail(s)) ELSE <<>>

AllPluses(s) == \A i \in 1..Len(s) : s[i] = "+"

\* the segments of a key between its '/' characters, the padding removed
Segments(k) == Split(TrimRight(k, {"0", "="}), <<"/">>)

\* the segments once the trailing all-'+' segment is removed
Remaining(k) ==
    LET segs == Segments(k)
    IN  IF AllPluses(segs[Len(segs)]) THEN SubSeq(segs, 1, Len(segs) - 1) ELSE segs

Folded(k) ==
    LET r == Remaining(k)
    IN  [i \in 1..Len(r) |->
            IF i < Len(r) /\ LeadingPluses(r[i + 1]) # <<>>
            THEN r[i] \o <<"/">> \o LeadingPluses(r[i + 1])
            ELSE r[i]]

\* C29: for every valid path key, once the trailing all-'+' segment is
\* removed and its length returned as the revision, inflateNodes returns
\* each remaining segment followed by "/" and the maximal leading run of
\* '+' of the next segment when that segment begins with '+' (the whole
\* of it when it is all '+'), every other segment unchanged, and the first
\* segment before folding as rootDir.
C29_RevisionFolding ==
    (inflateResult # <<>> /\ inflateResult[1].ok) =>
        LET segs == Segments(codecKey)
        IN  /\ inflateResult[1].nodes = Folded(codecKey)
            /\ inflateResult[1].rootdir = segs[1]
            /\ inflateResult[1].revision =
                   IF AllPluses(segs[Len(segs)]) THEN Len(segs[Len(segs)]) ELSE 0

(***************************************************************************)
(* The keys isLabelling accepts.                                           *)
(***************************************************************************)
\* t is "//" + content + "//" with a non-empty content without '/'
LabelForm(t) ==
    /\ Len(t) >= 5
    /\ SubSeq(t, 1, 2) = <<"/", "/">>
    /\ SubSeq(t, Len(t) - 1, Len(t)) = <<"/", "/">>
    /\ \A i \in 3..(Len(t) - 2) : t[i] # "/"

LabelContent(t) == SubSeq(t, 3, Len(t) - 2)

\* C30: isLabelling(k) returns true exactly when k begins with "//" and k
\* without its trailing '0' and '=' is "//" + content + "//" with a
\* non-empty content holding no '/'; the label is then the content with
\* each '+' replaced by a space, so it holds no '/'; every other key gets
\* (false, "").
C30_IsLabelling ==
    labelResult # <<>> =>
        LET t == TrimRight(codecKey, {"0", "="})
        IN  IF HasPrefix(codecKey, <<"/", "/">>) /\ LabelForm(t)
            THEN /\ labelResult[1] =
                       [ok |-> TRUE, label |-> ReplaceAll(LabelContent(t), "+", " ")]
                 /\ ~Contains(labelResult[1].label, "/")
            ELSE labelResult[1] = [ok |-> FALSE, label |-> <<>>]

=============================================================================
